---- MODULE Spec2Model ----
(***************************************************************************)
(* A model of the bridge core of darwinia-bridge-substrate:                *)
(*   - the dispatch pallet (modules/dispatch/src/lib.rs),                  *)
(*   - the messages-proof verifier (runtime-common/src/messages.rs),       *)
(*   - the fee-market reward and slashing ledger                           *)
(*     (modules/fee-market/src/s2s/payment.rs).                            *)
(* Each subsystem has its own specification over the shared variables; the *)
(* variables of the other subsystems stay at their initial values.         *)
(***************************************************************************)
EXTENDS Integers, Sequences, FiniteSets, TLC

VARIABLES
    events,       \* dispatch pallet: the deposited events, oldest first
    dispatched,   \* dispatch pallet: number of Pallet::dispatch calls so far
    last,         \* dispatch pallet: inputs, result and effects of the last call
    executed,     \* runtime: the calls executed by call.dispatch(origin), in order
    vmo,          \* verify_message_origin: inputs and result of the last call
    pf,           \* verify_messages_proof: the proof, the proved storage and the result
    ap,           \* the verifiers anchored to a finalized header: inputs and results
    cq,           \* clique pallet: its storage, and the last call with its result
    ln,           \* messages pallet: the state of a lane, and the last call on it
    cfg,          \* fee market: the configured ratios, the slash protection, the block
    orders,       \* fee market: Orders, by (lane id, message nonce)
    collateral,   \* fee market: the recorded locked collateral of each relayer
    balance,      \* balances pallet: the free balance of each account
    rw            \* pay_relayers_rewards: its arguments and what it did

vars == <<events, dispatched, last, executed, vmo, pf, ap, cq, ln, cfg, orders, collateral, balance, rw>>
marketVars == <<cfg, orders, collateral, balance, rw>>
dispatchVars == <<events, dispatched, last, executed>>

None == [none |-> TRUE]
Some(x) == [some |-> x]
IsSome(o) == "some" \in DOMAIN o

Ok(x) == [ok |-> x]
Err(e) == [err |-> e]
IsOk(r) == "ok" \in DOMAIN r
IsErr(r) == "err" \in DOMAIN r

Min(a, b) == IF a <= b THEN a ELSE b
Max(a, b) == IF a >= b THEN a ELSE b

(***************************************************************************)
(* Bounds of the model.                                                    *)
(***************************************************************************)
MaxDispatches == 2
MaxNonce == 3
MaxPrunings == 2
MaxSent == 34
MaxDeliveries == 4
MaxImports == 3

(***************************************************************************)
(* Weight: (ref_time, proof_size).                                         *)
(***************************************************************************)
W(r, p) == [ref_time |-> r, proof_size |-> p]
WeightZero == W(0, 0)
SatSub(a, b) == IF a >= b THEN a - b ELSE 0
WeightSaturatingSub(a, b) ==
    W(SatSub(a.ref_time, b.ref_time), SatSub(a.proof_size, b.proof_size))
WeightMin(a, b) == W(Min(a.ref_time, b.ref_time), Min(a.proof_size, b.proof_size))

(***************************************************************************)
(* The runtime the pallet is configured with (the test runtime of the      *)
(* pallet): its spec version, its calls and their encoding.                *)
(***************************************************************************)
SOURCE_CHAIN_ID == "srce"
TARGET_CHAIN_ID == "trgt"
TEST_SPEC_VERSION == 0
ExpectedVersion == TEST_SPEC_VERSION

\* RuntimeCall: RootTesting is pallet 0, System is pallet 1.
Remark == [pallet |-> "System", call |-> "remark"]
SetHeapPages == [pallet |-> "System", call |-> "set_heap_pages"]
FillBlock == [pallet |-> "RootTesting", call |-> "fill_block"]

\* EncodedCall(call.encode()): pallet index, then call index.
EncodeCall(call) ==
    CASE call = Remark -> <<1, 0>>
      [] call = SetHeapPages -> <<1, 1>>
      [] call = FillBlock -> <<0, 0>>

\* EncodedCall::into(): RuntimeCall::decode(bytes).map_err(drop)
DecodeCall(bytes) ==
    IF Len(bytes) < 2 THEN Err("decode")
    ELSE CASE bytes[1] = 1 /\ bytes[2] = 0 -> Ok(Remark)
           [] bytes[1] = 1 /\ bytes[2] = 1 -> Ok(SetHeapPages)
           [] bytes[1] = 0 /\ bytes[2] = 0 -> Ok(FillBlock)
           [] OTHER -> Err("decode")

EncodedCalls == {<<1, 0>>, <<1, 1>>, <<0, 0>>, <<1>>}

\* call.get_dispatch_info(): the call's pre-dispatch weight
GetDispatchInfo(call) ==
    CASE call = Remark -> [weight |-> W(1, 0)]
      [] call = SetHeapPages -> [weight |-> W(2, 1)]
      [] call = FillBlock -> [weight |-> W(1, 1)]

\* CallValidator::call_validate of the test runtime: fill_block is rejected
CallValidate(relayer_account, origin, call) ==
    IF call = FillBlock THEN Err("InvalidTransaction::Call") ELSE Ok("unit")

\* IntoDispatchOrigin::into_dispatch_origin: RawOrigin::Signed(id)
IntoDispatchOrigin(id, call) == [kind |-> "Signed", who |-> id]

\* call.dispatch(origin): remark needs a signed or root origin, set_heap_pages and
\* fill_block need Root; none of them reports a post-dispatch weight.
DefaultPostInfo == [actual_weight |-> None, pays_fee |-> "Yes"]
CallDispatch(call, origin) ==
    CASE call = Remark ->
            IF origin.kind \in {"Signed", "Root"}
            THEN Ok(DefaultPostInfo)
            ELSE Err([error |-> "BadOrigin", post_info |-> DefaultPostInfo])
      [] call \in {SetHeapPages, FillBlock} ->
            IF origin.kind = "Root"
            THEN Ok(DefaultPostInfo)
            ELSE Err([error |-> "BadOrigin", post_info |-> DefaultPostInfo])

(***************************************************************************)
(* Accounts, origins and signatures.                                       *)
(***************************************************************************)
Accounts == {1, 2}

\* derive_account_id(chain, SourceAccount::Root | Account(id)) followed by
\* AccountIdConverter::convert: a hash of (chain, tag, id), never a plain account
DeriveRootAccount(chain) == [derived |-> <<chain, "root">>]
DeriveSourceAccount(chain, id) == [derived |-> <<chain, "account", id>>]

\* TargetChainAccountPublic::into_account
IntoAccount(public) == public.key

\* A verification that accepts every signature
VerifySignatureOfAnyone(signature, digest, account) == TRUE

\* TestSignature::verify(msg, signer): self.0 == *signer.  The message, here the
\* ownership digest, is not looked at; `signed` records what the signature was made
\* over and plays no part.
VerifySignature(signature, digest, account) == signature.signer = account

\* account_ownership_digest: the encodings of its five arguments, concatenated
account_ownership_digest(call, source_account_id, target_spec_version, source_chain_id, target_chain_id) ==
    <<EncodeCall(call), source_account_id, target_spec_version,
      source_chain_id, target_chain_id>>

\* CallOrigin
SourceRoot == [variant |-> "SourceRoot"]
SourceAccountOrigin(id) == [variant |-> "SourceAccount", id |-> id]
TargetAccountOrigin(id, public, signature) ==
    [variant |-> "TargetAccount", id |-> id, public |-> public, signature |-> signature]

(***************************************************************************)
(* Pallet::dispatch                                                        *)
(***************************************************************************)
\* MessageDispatchResult
DispatchResult(ok, unspent, paid) ==
    [dispatch_result |-> ok, unspent_weight |-> unspent,
     dispatch_fee_paid_during_dispatch |-> paid]

\* What one call of dispatch did: the events it deposited, the result it
\* returned, and what it touched on the way.
Outcome(evs, result, decoded, feeCalls, execs) ==
    [events |-> evs, result |-> result, decoded |-> decoded,
     fee_calls |-> feeCalls, executions |-> execs]

\* A version check that lets newer spec versions through
SpecVersionOlderOnly(message) == message.spec_version < ExpectedVersion

\* message.spec_version != expected_version
SpecVersionMismatch(message) == message.spec_version # ExpectedVersion

\* A weight check that is off by one unit of ref_time
WeightTooLowOffByOne(message, expected_weight) ==
    message.weight.ref_time + 1 < expected_weight.ref_time

\* message.weight.ref_time() < expected_weight.ref_time()
WeightTooLow(message, expected_weight) ==
    message.weight.ref_time < expected_weight.ref_time

\* A weight extraction that believes whatever the call reports
extract_actual_weight_uncapped(result, info) ==
    LET post_info == IF IsOk(result) THEN result.ok ELSE result.err.post_info
    IN  IF post_info.pays_fee = "Yes"
        THEN IF IsSome(post_info.actual_weight)
             THEN post_info.actual_weight.some
             ELSE info.weight
        ELSE WeightZero

\* A weight extraction that charges nothing for a call that failed
extract_actual_weight_of_success(result, info) ==
    IF IsErr(result) THEN WeightZero
    ELSE IF result.ok.pays_fee = "Yes"
    THEN IF IsSome(result.ok.actual_weight)
         THEN WeightMin(result.ok.actual_weight.some, info.weight)
         ELSE info.weight
    ELSE WeightZero

\* extract_actual_weight
extract_actual_weight(result, info) ==
    LET post_info == IF IsOk(result) THEN result.ok ELSE result.err.post_info
    IN  IF post_info.pays_fee = "Yes"
        THEN IF IsSome(post_info.actual_weight)
             THEN WeightMin(post_info.actual_weight.some, info.weight)
             ELSE info.weight
        ELSE WeightZero

\* A rejection that reports the message as one whose call did not decode
RejectedOutcomeAsDecodeFailure(source_chain, id) ==
    Outcome(<<[kind |-> "MessageCallDecodeFailed", chain |-> source_chain, id |-> id]>>,
            DispatchResult(FALSE, WeightZero, FALSE), TRUE, <<>>, <<>>)

\* The rejection before the actual dispatch: message is Err
RejectedOutcome(source_chain, id) ==
    Outcome(<<[kind |-> "MessageRejected", chain |-> source_chain, id |-> id]>>,
            DispatchResult(FALSE, WeightZero, FALSE), FALSE, <<>>, <<>>)

\* An early return that forgets to deposit its event
EarlyReturnWithoutEvent(event, message, decoded, feeCalls) ==
    [events |-> <<>>, result |-> DispatchResult(FALSE, message.weight, FALSE),
     decoded |-> decoded, fee_calls |-> feeCalls, executions |-> <<>>]

\* The returns of `dispatch_result` as first built: nothing dispatched, nothing
\* paid, the whole declared weight unspent.
EarlyReturn(event, message, decoded, feeCalls) ==
    Outcome(<<event>>, DispatchResult(FALSE, message.weight, FALSE),
            decoded, feeCalls, <<>>)

\* A tail of dispatch that executes the call whether or not the fee was paid
PayAndExecuteUnpaid(source_chain, id, message, call, account, dispatch_origin, payOk) ==
    LET atTarget == message.dispatch_fee_payment = "AtTargetChain"
        feeCalls == IF atTarget
                    THEN <<[account |-> account, weight |-> message.weight, ok |-> payOk]>>
                    ELSE <<>>
        info == GetDispatchInfo(call)
        result == CallDispatch(call, dispatch_origin)
        actual_call_weight == extract_actual_weight(result, info)
    IN  Outcome(<<[kind |-> "MessageDispatched", chain |-> source_chain, id |-> id,
                   result |-> IF IsOk(result) THEN Ok("unit") ELSE Err(result.err.error)]>>,
                DispatchResult(IsOk(result),
                               WeightSaturatingSub(message.weight, actual_call_weight),
                               atTarget),
                TRUE, feeCalls,
                <<[id |-> id, call |-> call, origin |-> dispatch_origin]>>)

\* The tail of dispatch: fee payment, then the call's execution
PayAndExecute(source_chain, id, message, call, account, dispatch_origin, payOk) ==
    LET atTarget == message.dispatch_fee_payment = "AtTargetChain"
        feeCalls == IF atTarget
                    THEN <<[account |-> account, weight |-> message.weight, ok |-> payOk]>>
                    ELSE <<>>
    IN  IF atTarget /\ ~payOk
        THEN EarlyReturn([kind |-> "MessageDispatchPaymentFailed", chain |-> source_chain,
                          id |-> id, account |-> account, weight |-> message.weight],
                         message, TRUE, feeCalls)
        ELSE LET info == GetDispatchInfo(call)
                 result == CallDispatch(call, dispatch_origin)
                 actual_call_weight == extract_actual_weight(result, info)
             IN  Outcome(<<[kind |-> "MessageDispatched", chain |-> source_chain, id |-> id,
                            result |-> IF IsOk(result) THEN Ok("unit")
                                       ELSE Err(result.err.error)]>>,
                         DispatchResult(IsOk(result),
                                        WeightSaturatingSub(message.weight, actual_call_weight),
                                        atTarget),
                         TRUE, feeCalls,
                         <<[id |-> id, call |-> call, origin |-> dispatch_origin]>>)

\* The two checks in the other order: the weight check before call validation
ValidateAndWeighWeightFirst(source_chain, relayer_account, id, message, call, account, payOk) ==
    LET dispatch_origin == IntoDispatchOrigin(account, call)
        validity == CallValidate(relayer_account, dispatch_origin, call)
        expected_weight == GetDispatchInfo(call).weight
    IN  IF WeightTooLow(message, expected_weight)
        THEN EarlyReturn([kind |-> "MessageWeightMismatch", chain |-> source_chain,
                          id |-> id, expected |-> expected_weight, got |-> message.weight],
                         message, TRUE, <<>>)
        ELSE IF IsErr(validity)
        THEN EarlyReturn([kind |-> "MessageCallValidateFailed", chain |-> source_chain,
                          id |-> id, error |-> validity.err], message, TRUE, <<>>)
        ELSE PayAndExecute(source_chain, id, message, call, account, dispatch_origin, payOk)

\* Call validation and the weight check, once the origin account is derived
ValidateAndWeigh(source_chain, relayer_account, id, message, call, account, payOk) ==
    LET dispatch_origin == IntoDispatchOrigin(account, call)
        validity == CallValidate(relayer_account, dispatch_origin, call)
        expected_weight == GetDispatchInfo(call).weight
    IN  IF IsErr(validity)
        THEN EarlyReturn([kind |-> "MessageCallValidateFailed", chain |-> source_chain,
                          id |-> id, error |-> validity.err], message, TRUE, <<>>)
        ELSE IF WeightTooLow(message, expected_weight)
        THEN EarlyReturn([kind |-> "MessageWeightMismatch", chain |-> source_chain,
                          id |-> id, expected |-> expected_weight, got |-> message.weight],
                         message, TRUE, <<>>)
        ELSE PayAndExecute(source_chain, id, message, call, account, dispatch_origin, payOk)

\* The origin account of a decoded call, or the signature mismatch
OriginDerivedAccount(source_chain, target_chain, message, call) ==
    CASE message.origin.variant = "SourceRoot" -> Ok(DeriveRootAccount(source_chain))
      [] message.origin.variant = "TargetAccount" ->
            LET digest == account_ownership_digest(call, message.origin.id,
                              message.spec_version, source_chain, target_chain)
                target_account == IntoAccount(message.origin.public)
            IN  IF ~VerifySignature(message.origin.signature, digest, target_account)
                THEN Err("signature")
                ELSE Ok(target_account)
      [] message.origin.variant = "SourceAccount" ->
            Ok(DeriveSourceAccount(source_chain, message.origin.id))

\* dispatch(source_chain, target_chain, relayer_account, id, message, pay_dispatch_fee);
\* payOk is what pay_dispatch_fee returns if it is called.
Dispatch(source_chain, target_chain, relayer_account, id, message, payOk) ==
    IF IsErr(message) THEN RejectedOutcome(source_chain, id)
    ELSE LET m == message.ok IN
    IF SpecVersionMismatch(m)
    THEN EarlyReturn([kind |-> "MessageVersionSpecMismatch", chain |-> source_chain,
                      id |-> id, expected |-> ExpectedVersion, got |-> m.spec_version],
                     m, FALSE, <<>>)
    ELSE LET decoded == DecodeCall(m.call) IN
    IF IsErr(decoded)
    THEN EarlyReturn([kind |-> "MessageCallDecodeFailed", chain |-> source_chain, id |-> id],
                     m, TRUE, <<>>)
    ELSE LET account == OriginDerivedAccount(source_chain, target_chain, m, decoded.ok) IN
    IF IsErr(account)
    THEN EarlyReturn([kind |-> "MessageSignatureMismatch", chain |-> source_chain, id |-> id],
                     m, TRUE, <<>>)
    ELSE ValidateAndWeigh(source_chain, relayer_account, id, m, decoded.ok, account.ok, payOk)

(***************************************************************************)
(* verify_message_origin                                                   *)
(***************************************************************************)
RawRoot == [kind |-> "Root"]
RawSigned(who) == [kind |-> "Signed", who |-> who]
RawNone == [kind |-> "None"]

\* An origin check whose TargetAccount arm also lets Root through, as the
\* SourceAccount arm does
verify_message_origin_root_everywhere(sender_origin, message) ==
    CASE message.origin.variant = "SourceRoot" ->
            IF sender_origin = RawRoot THEN Ok(None) ELSE Err("BadOrigin")
      [] OTHER ->
            IF sender_origin = RawSigned(message.origin.id) \/ sender_origin = RawRoot
            THEN Ok(Some(message.origin.id)) ELSE Err("BadOrigin")

verify_message_origin(sender_origin, message) ==
    CASE message.origin.variant = "SourceRoot" ->
            IF sender_origin = RawRoot THEN Ok(None) ELSE Err("BadOrigin")
      [] message.origin.variant = "TargetAccount" ->
            IF sender_origin = RawSigned(message.origin.id)
            THEN Ok(Some(message.origin.id)) ELSE Err("BadOrigin")
      [] message.origin.variant = "SourceAccount" ->
            IF sender_origin = RawSigned(message.origin.id) \/ sender_origin = RawRoot
            THEN Ok(Some(message.origin.id)) ELSE Err("BadOrigin")

(***************************************************************************)
(* target::verify_messages_proof_with_parser                               *)
(***************************************************************************)
\* StorageProofChecker::read_value over the proved storage: the read fails (the
\* proof lacks the nodes), proves the key absent, or yields the raw value
ReadFailed == Err("StorageValueUnavailable")
ReadAbsent == Ok(None)
ReadValue(bytes) == Ok(Some(bytes))

\* Result::ok()?: a failed read and an absent key are both None
OkFlatten(read) == IF IsOk(read) THEN read.ok ELSE None

MessageKey(lane, nonce) == [lane_id |-> lane, nonce |-> nonce]
OutboundLaneDataKey(lane) == [lane_id |-> lane, outbound |-> TRUE]

\* MessageProofParser::read_raw_message / read_raw_outbound_lane_data
read_raw_message(parser, message_key) ==
    IF message_key \in DOMAIN parser.storage
    THEN OkFlatten(parser.storage[message_key]) ELSE None
read_raw_outbound_lane_data(parser, lane) ==
    IF OutboundLaneDataKey(lane) \in DOMAIN parser.storage
    THEN OkFlatten(parser.storage[OutboundLaneDataKey(lane)]) ELSE None

\* MessageData::encode: the payload's length, the payload, the fee
EncodeMessageData(data) == <<Len(data.payload)>> \o data.payload \o <<data.fee>>

\* MessageData::decode: fails on input that ends early, ignores what follows
DecodeMessageData(bytes) ==
    IF Len(bytes) = 0 \/ Len(bytes) < bytes[1] + 2 THEN Err("decode")
    ELSE Ok([payload |-> SubSeq(bytes, 2, bytes[1] + 1), fee |-> bytes[bytes[1] + 2]])

\* OutboundLaneData::encode / decode: three nonces
EncodeOutboundLaneData(data) ==
    <<data.oldest_unpruned_nonce, data.latest_received_nonce, data.latest_generated_nonce>>
DecodeOutboundLaneData(bytes) ==
    IF Len(bytes) < 3 THEN Err("decode")
    ELSE Ok([oldest_unpruned_nonce |-> bytes[1], latest_received_nonce |-> bytes[2],
             latest_generated_nonce |-> bytes[3]])

\* A count check that forgets the + 1 of an inclusive range
MessagesInTheProofExclusive(nonces_start, nonces_end, messages_count) ==
    IF nonces_end >= nonces_start
    THEN IF nonces_end - nonces_start # messages_count
         THEN Err("MessagesCountMismatch")
         ELSE Ok(nonces_end - nonces_start)
    ELSE Ok(0)

\* messages_in_the_proof: checked_sub, then the comparison with messages_count.
\* (saturating_add(1) saturates only at u64::MAX, which no u32 count equals.)
MessagesInTheProof(nonces_start, nonces_end, messages_count) ==
    IF nonces_end >= nonces_start
    THEN LET messages_in_the_proof == (nonces_end - nonces_start) + 1
         IN  IF messages_in_the_proof # messages_count
             THEN Err("MessagesCountMismatch")
             ELSE Ok(messages_in_the_proof)
    ELSE Ok(0)

\* A read loop that skips the messages it cannot read or decode
RECURSIVE ReadMessagesLenient(_, _, _, _, _)
ReadMessagesLenient(parser, lane, nonce, nonces_end, messages) ==
    IF nonce > nonces_end THEN Ok(messages)
    ELSE LET message_key == MessageKey(lane, nonce)
             raw_message_data == read_raw_message(parser, message_key)
         IN  IF ~IsSome(raw_message_data) \/ IsErr(DecodeMessageData(raw_message_data.some))
             THEN ReadMessagesLenient(parser, lane, nonce + 1, nonces_end, messages)
             ELSE ReadMessagesLenient(parser, lane, nonce + 1, nonces_end,
                      Append(messages,
                             [key |-> message_key,
                              data |-> DecodeMessageData(raw_message_data.some).ok]))

\* for nonce in nonces_start..=nonces_end: read, decode, push; `?` leaves at the
\* first message that is missing or does not decode
RECURSIVE ReadMessages(_, _, _, _, _)
ReadMessages(parser, lane, nonce, nonces_end, messages) ==
    IF nonce > nonces_end THEN Ok(messages)
    ELSE LET message_key == MessageKey(lane, nonce)
             raw_message_data == read_raw_message(parser, message_key)
         IN  IF ~IsSome(raw_message_data) THEN Err("MissingRequiredMessage")
             ELSE LET message_data == DecodeMessageData(raw_message_data.some)
                  IN  IF IsErr(message_data) THEN Err("FailedToDecodeMessage")
                      ELSE ReadMessages(parser, lane, nonce + 1, nonces_end,
                               Append(messages,
                                      [key |-> message_key, data |-> message_data.ok]))

\* An emptiness check that wants both a lane state and messages
IsEmptyProofEither(proved_lane_messages) ==
    ~IsSome(proved_lane_messages.lane_state) \/ proved_lane_messages.messages = <<>>

\* lane_state.is_none() && messages.is_empty()
IsEmptyProof(proved_lane_messages) ==
    ~IsSome(proved_lane_messages.lane_state) /\ proved_lane_messages.messages = <<>>

\* A lane state that is dropped when it does not decode
ReadLaneStateLenient(parser, lane) ==
    LET raw_outbound_lane_data == read_raw_outbound_lane_data(parser, lane)
    IN  IF IsSome(raw_outbound_lane_data)
           /\ IsOk(DecodeOutboundLaneData(raw_outbound_lane_data.some))
        THEN Ok(Some(DecodeOutboundLaneData(raw_outbound_lane_data.some).ok))
        ELSE Ok(None)

\* The lane state of the proof: optional, but it must decode when it is there
ReadLaneState(parser, lane) ==
    LET raw_outbound_lane_data == read_raw_outbound_lane_data(parser, lane)
    IN  IF IsSome(raw_outbound_lane_data)
        THEN IF IsErr(DecodeOutboundLaneData(raw_outbound_lane_data.some))
             THEN Err("FailedToDecodeOutboundLaneState")
             ELSE Ok(Some(DecodeOutboundLaneData(raw_outbound_lane_data.some).ok))
        ELSE Ok(None)

\* verify_messages_proof_with_parser(proof, messages_count, build_parser);
\* build_parser is given as its result: the parser over the proved storage, or the
\* error of the finality pallet.
verify_messages_proof_with_parser(proof, messages_count, built) ==
    LET counted == MessagesInTheProof(proof.nonces_start, proof.nonces_end, messages_count)
    IN  IF IsErr(counted) THEN counted
        ELSE IF IsErr(built) THEN Err("Custom")
        ELSE LET parser == built.ok
                 messages == ReadMessages(parser, proof.lane, proof.nonces_start,
                                          proof.nonces_end, <<>>)
             IN  IF IsErr(messages) THEN messages
                 ELSE LET lane_state == ReadLaneState(parser, proof.lane)
                      IN  IF IsErr(lane_state) THEN lane_state
                          ELSE LET proved_lane_messages ==
                                       [lane_state |-> lane_state.ok,
                                        messages |-> messages.ok]
                               IN  IF IsEmptyProof(proved_lane_messages)
                                   THEN Err("Empty")
                                   ELSE Ok([l \in {proof.lane} |-> proved_lane_messages])

(***************************************************************************)
(* The two anchoring strategies and the delivery proof.                    *)
(***************************************************************************)
\* StorageProofChecker::new(root, proof): the proof must be a proof under that root
StorageProofCheckerNew(root, storage_proof) ==
    IF storage_proof.root = root THEN Ok([storage |-> storage_proof.storage])
    ELSE Err("StorageRootMismatch")

\* pallet_bridge_grandpa parse_finalized_storage_proof: the state root of the
\* imported header with that hash
GrandpaParseFinalizedStorageProof(imported_headers, hash, storage_proof) ==
    IF hash \notin DOMAIN imported_headers THEN Err("UnknownHeader")
    ELSE StorageProofCheckerNew(imported_headers[hash].state_root, storage_proof)

\* BridgedHeader::decode(para_head).ok().map(|h| *h.state_root()): a header is
\* encoded as its number and its state root
DecodeStateRoot(para_head) ==
    IF Len(para_head) < 2 THEN None ELSE Some(para_head[2])

\* pallet_bridge_parachains parse_finalized_storage_proof: the state root decoded
\* from the imported head of the parachain with that hash
ParachainsParseFinalizedStorageProof(imported_para_heads, parachain, hash, storage_proof) ==
    IF <<parachain, hash>> \notin DOMAIN imported_para_heads THEN Err("UnknownHeader")
    ELSE LET root == DecodeStateRoot(imported_para_heads[<<parachain, hash>>])
         IN  IF ~IsSome(root) THEN Err("FailedToExtractStateRoot")
             ELSE StorageProofCheckerNew(root.some, storage_proof)

\* From<MessageProofError> for &'static str; Custom carries the anchoring error
MessageProofErrorStr(result, built) ==
    IF IsOk(result) THEN result
    ELSE CASE result.err = "Empty" -> Err("Messages proof is empty")
           [] result.err = "MessagesCountMismatch" ->
                Err("Declared messages count doesn't match actual value")
           [] result.err = "MissingRequiredMessage" ->
                Err("Message is missing from the proof")
           [] result.err = "FailedToDecodeMessage" ->
                Err("Failed to decode message from the proof")
           [] result.err = "FailedToDecodeOutboundLaneState" ->
                Err("Failed to decode outbound lane data from the proof")
           [] result.err = "Custom" -> Err(built.err)

\* A parachain verifier that takes the count from the range it is given
verify_messages_proof_from_parachain_own_count(imported_para_heads, bridged_parachain, proof, messages_count) ==
    MessageProofErrorStr(
        verify_messages_proof_with_parser(
            proof, Max(proof.nonces_end - proof.nonces_start + 1, 0),
            ParachainsParseFinalizedStorageProof(imported_para_heads, bridged_parachain,
                proof.bridged_header_hash, proof.storage_proof)),
        ParachainsParseFinalizedStorageProof(imported_para_heads, bridged_parachain,
            proof.bridged_header_hash, proof.storage_proof))

\* target::verify_messages_proof
verify_messages_proof(imported_headers, proof, messages_count) ==
    MessageProofErrorStr(
        verify_messages_proof_with_parser(
            proof, messages_count,
            GrandpaParseFinalizedStorageProof(imported_headers, proof.bridged_header_hash,
                                              proof.storage_proof)),
        GrandpaParseFinalizedStorageProof(imported_headers, proof.bridged_header_hash,
                                          proof.storage_proof))

\* target::verify_messages_proof_from_parachain
verify_messages_proof_from_parachain(imported_para_heads, bridged_parachain, proof, messages_count) ==
    MessageProofErrorStr(
        verify_messages_proof_with_parser(
            proof, messages_count,
            ParachainsParseFinalizedStorageProof(imported_para_heads, bridged_parachain,
                proof.bridged_header_hash, proof.storage_proof)),
        ParachainsParseFinalizedStorageProof(imported_para_heads, bridged_parachain,
            proof.bridged_header_hash, proof.storage_proof))

InboundLaneDataKey(lane) == [lane_id |-> lane, inbound |-> TRUE]

\* InboundLaneData::encode / decode: the number of unrewarded relayers, for each its
\* id and its range of nonces, then last_confirmed_nonce
RECURSIVE EncodeRelayers(_, _)
EncodeRelayers(relayers, i) ==
    IF i > Len(relayers) THEN <<>>
    ELSE <<relayers[i].relayer, relayers[i].messages.begin, relayers[i].messages.end>>
         \o EncodeRelayers(relayers, i + 1)
EncodeInboundLaneData(data) ==
    <<Len(data.relayers)>> \o EncodeRelayers(data.relayers, 1)
    \o <<data.last_confirmed_nonce>>
DecodeInboundLaneData(bytes) ==
    IF Len(bytes) = 0 \/ Len(bytes) < 3 * bytes[1] + 2 THEN Err("decode")
    ELSE Ok([relayers |-> [i \in 1..bytes[1] |->
                              [relayer |-> bytes[3 * i - 1],
                               messages |-> [begin |-> bytes[3 * i],
                                             end |-> bytes[3 * i + 1]]]],
             last_confirmed_nonce |-> bytes[3 * bytes[1] + 2]])

\* StorageProofChecker::read_value
StorageReadValue(storage, key) == IF key \in DOMAIN storage THEN storage[key] ELSE ReadAbsent

\* A delivery-proof check that takes a missing lane state for an empty one
do_verify_messages_delivery_proof_default(lane, storage) ==
    LET read == StorageReadValue(storage.storage, InboundLaneDataKey(lane))
    IN  IF IsErr(read) THEN Err("Failed to read inbound lane state from storage proof")
        ELSE IF ~IsSome(read.ok)
        THEN Ok(<<lane, [relayers |-> <<>>, last_confirmed_nonce |-> 0]>>)
        ELSE IF IsErr(DecodeInboundLaneData(read.ok.some))
        THEN Err("Failed to decode inbound lane state from the proof")
        ELSE Ok(<<lane, DecodeInboundLaneData(read.ok.some).ok>>)

\* source::do_verify_messages_delivery_proof
do_verify_messages_delivery_proof(lane, storage) ==
    LET read == StorageReadValue(storage.storage, InboundLaneDataKey(lane))
    IN  IF IsErr(read) THEN Err("Failed to read inbound lane state from storage proof")
        ELSE IF ~IsSome(read.ok)
        THEN Err("Inbound lane state is missing from the messages proof")
        ELSE IF IsErr(DecodeInboundLaneData(read.ok.some))
        THEN Err("Failed to decode inbound lane state from the proof")
        ELSE Ok(<<lane, DecodeInboundLaneData(read.ok.some).ok>>)

\* parse_finalized_storage_proof(..., parse).map_err(from)?: the anchoring error, or
\* what the parse closure returns
ParsedWith(built, lane) ==
    IF IsErr(built) THEN built ELSE do_verify_messages_delivery_proof(lane, built.ok)

\* source::verify_messages_delivery_proof
verify_messages_delivery_proof(imported_headers, proof) ==
    ParsedWith(GrandpaParseFinalizedStorageProof(imported_headers, proof.bridged_header_hash,
                                                 proof.storage_proof),
               proof.lane)

\* source::verify_messages_delivery_proof_from_parachain
verify_messages_delivery_proof_from_parachain(imported_para_heads, bridged_parachain, proof) ==
    ParsedWith(ParachainsParseFinalizedStorageProof(imported_para_heads, bridged_parachain,
                   proof.bridged_header_hash, proof.storage_proof),
               proof.lane)

(***************************************************************************)
(* The fee market: orders, collateral and balances.                        *)
(***************************************************************************)
\* The accounts of the relayer fund and of the treasury pallet
FundAccount == 8
TreasuryAccount == 9

\* Permill * Balance, for a ratio given in percent: the product is rounded to the
\* nearest unit, an exact half down
PermillMul(percent, x) ==
    LET product == percent * x
    IN  IF product % 100 > 50 THEN (product \div 100) + 1 ELSE product \div 100

\* Order::fee: the fee of the last assigned relayer
OrderFee(order) ==
    IF Len(order.assigned_relayers) = 0 THEN 0
    ELSE order.assigned_relayers[Len(order.assigned_relayers)].fee

\* Order::range_end: the end of the last slot
OrderRangeEnd(order) == order.assigned_relayers[Len(order.assigned_relayers)].valid_range.end

\* Order::delivery_info: the slot (index from 0, relayer, fee) whose range holds
\* the confirm time
InSlot(relayer, time) == relayer.valid_range.start <= time /\ time < relayer.valid_range.end
DeliveryInfo(order, confirm_time) ==
    LET hits == {i \in 1..Len(order.assigned_relayers) :
                    InSlot(order.assigned_relayers[i], confirm_time)}
    IN  IF hits = {} THEN None
        ELSE LET i == CHOOSE i \in hits : \A j \in hits : i <= j
             IN  Some([relayer_index |-> i - 1,
                       slot_relayer_id |-> order.assigned_relayers[i].id,
                       base_fee |-> order.assigned_relayers[i].fee])

\* Order::delivery_delay: how long after the last slot the order was confirmed
DeliveryDelay(order) ==
    IF IsSome(order.confirm_time) /\ order.confirm_time.some >= OrderRangeEnd(order)
    THEN Some(order.confirm_time.some - OrderRangeEnd(order))
    ELSE None

\* Slasher::cal_slash_amount: a penalty per block of delay, at most the collateral
\* locked for the order
CalSlashAmount(locked_collateral, delay) == Min(locked_collateral, delay * 2)

\* Currency::transfer: nothing to do for a zero amount or a transfer to oneself;
\* AllowDeath may empty the account, KeepAlive must leave the existential deposit in
\* it, and the recipient must end with the existential deposit
CurrencyTransfer(bal, from, to, amount, keep_alive) ==
    IF amount = 0 \/ from = to THEN Ok(bal)
    ELSE IF bal[from] < amount \/ (keep_alive /\ bal[from] - amount < cfg.existential_deposit)
    THEN Err("InsufficientBalance")
    ELSE IF bal[to] + amount < cfg.existential_deposit
    THEN Err("ExistentialDeposit")
    ELSE Ok([bal EXCEPT ![from] = @ - amount, ![to] = @ + amount])

(***************************************************************************)
(* fee-market s2s payment                                                  *)
(***************************************************************************)
NON_ZERO_MESSAGE_FEE_CANT_BE_PAID_BY_NONE == "Non-zero message fee can't be paid by <None>"

\* SenderOrigin::linked_account: the account of a signed origin, none for the others
linked_account(submitter) ==
    IF submitter.kind = "Signed" THEN Some(submitter.who) ELSE None

\* A payment that lets an origin without account through with any fee
pay_delivery_and_dispatch_fee_unpaid(bal, submitter, fee, relayer_fund_account) ==
    IF ~IsSome(linked_account(submitter)) THEN [result |-> Ok("unit"), balance |-> bal]
    ELSE LET transfer == CurrencyTransfer(bal, linked_account(submitter).some,
                                          relayer_fund_account, fee, FALSE)
         IN  IF IsOk(transfer) THEN [result |-> Ok("unit"), balance |-> transfer.ok]
             ELSE [result |-> transfer, balance |-> bal]

\* FeeMarketPayment::pay_delivery_and_dispatch_fee; the result and the balances
pay_delivery_and_dispatch_fee(bal, submitter, fee, relayer_fund_account) ==
    IF ~IsSome(linked_account(submitter))
    THEN IF fee # 0
         THEN [result |-> Err(NON_ZERO_MESSAGE_FEE_CANT_BE_PAID_BY_NONE), balance |-> bal]
         ELSE [result |-> Ok("unit"), balance |-> bal]
    ELSE LET transfer == CurrencyTransfer(bal, linked_account(submitter).some,
                                          relayer_fund_account, fee, FALSE)
         IN  IF IsOk(transfer) THEN [result |-> Ok("unit"), balance |-> transfer.ok]
             ELSE [result |-> transfer, balance |-> bal]

\* RewardItem::new
NewRewardItem ==
    [to_slot_relayer |-> None, to_treasury |-> None,
     to_message_relayer |-> None, to_confirm_relayer |-> None]

\* RewardsBook::new
NewRewardsBook ==
    [deliver_sum |-> <<>>, confirm_sum |-> 0, assigned_relayers_sum |-> <<>>,
     treasury_sum |-> 0]

\* BTreeMap entry(id).and_modify(|r| r + reward).or_insert(reward)
MapAdd(map, id, reward) ==
    IF id \in DOMAIN map THEN [map EXCEPT ![id] = @ + reward]
    ELSE [k \in DOMAIN map \cup {id} |-> IF k = id THEN reward ELSE map[k]]

\* A book that keeps, per recipient, the amount of the last item only
add_reward_item_overwriting(book, item) ==
    [deliver_sum |->
         IF IsSome(item.to_message_relayer)
         THEN [k \in DOMAIN book.deliver_sum \cup {item.to_message_relayer.some[1]} |->
                  IF k = item.to_message_relayer.some[1] THEN item.to_message_relayer.some[2]
                  ELSE book.deliver_sum[k]]
         ELSE book.deliver_sum,
     confirm_sum |->
         IF IsSome(item.to_confirm_relayer) THEN item.to_confirm_relayer.some[2]
         ELSE book.confirm_sum,
     assigned_relayers_sum |->
         IF IsSome(item.to_slot_relayer)
         THEN [k \in DOMAIN book.assigned_relayers_sum \cup {item.to_slot_relayer.some[1]} |->
                  IF k = item.to_slot_relayer.some[1] THEN item.to_slot_relayer.some[2]
                  ELSE book.assigned_relayers_sum[k]]
         ELSE book.assigned_relayers_sum,
     treasury_sum |->
         IF IsSome(item.to_treasury) THEN item.to_treasury.some ELSE book.treasury_sum]

\* RewardsBook::add_reward_item
add_reward_item(book, item) ==
    LET b1 == IF IsSome(item.to_slot_relayer)
              THEN [book EXCEPT !.assigned_relayers_sum =
                       MapAdd(@, item.to_slot_relayer.some[1], item.to_slot_relayer.some[2])]
              ELSE book
        b2 == IF IsSome(item.to_treasury)
              THEN [b1 EXCEPT !.treasury_sum = @ + item.to_treasury.some]
              ELSE b1
        b3 == IF IsSome(item.to_message_relayer)
              THEN [b2 EXCEPT !.deliver_sum =
                       MapAdd(@, item.to_message_relayer.some[1],
                              item.to_message_relayer.some[2])]
              ELSE b2
    IN  IF IsSome(item.to_confirm_relayer)
        THEN [b3 EXCEPT !.confirm_sum = @ + item.to_confirm_relayer.some[2]]
        ELSE b3

\* A split that sends the treasury everything but the slot relayer's share
cal_rewards_before_deadline_treasury_slip(slot_relayer_id, message_relayer_id, confirm_relayer_id, total_reward, base_fee) ==
    LET slot_relayer_reward == PermillMul(cfg.assigned_relayers_reward_ratio, base_fee)
        bridger_relayers_reward == SatSub(base_fee, slot_relayer_reward)
    IN  [to_treasury |-> Some(SatSub(total_reward, slot_relayer_reward)),
         to_slot_relayer |-> Some(<<slot_relayer_id, slot_relayer_reward>>),
         to_message_relayer |->
             Some(<<message_relayer_id,
                    PermillMul(cfg.message_relayers_reward_ratio, bridger_relayers_reward)>>),
         to_confirm_relayer |->
             Some(<<confirm_relayer_id,
                    PermillMul(cfg.confirm_relayers_reward_ratio, bridger_relayers_reward)>>)]

\* A split that takes the slot relayer's share from the whole reward, not the base fee
cal_rewards_before_deadline_slot_of_total(slot_relayer_id, message_relayer_id, confirm_relayer_id, total_reward, base_fee) ==
    LET slot_relayer_reward == PermillMul(cfg.assigned_relayers_reward_ratio, total_reward)
        bridger_relayers_reward == SatSub(base_fee, slot_relayer_reward)
    IN  [to_treasury |-> Some(SatSub(total_reward, base_fee)),
         to_slot_relayer |-> Some(<<slot_relayer_id, slot_relayer_reward>>),
         to_message_relayer |->
             Some(<<message_relayer_id,
                    PermillMul(cfg.message_relayers_reward_ratio, bridger_relayers_reward)>>),
         to_confirm_relayer |->
             Some(<<confirm_relayer_id,
                    PermillMul(cfg.confirm_relayers_reward_ratio, bridger_relayers_reward)>>)]

\* cal_rewards_before_deadline: the reward item of an order confirmed in a slot
cal_rewards_before_deadline(slot_relayer_id, message_relayer_id, confirm_relayer_id, total_reward, base_fee) ==
    LET slot_relayer_reward == PermillMul(cfg.assigned_relayers_reward_ratio, base_fee)
        bridger_relayers_reward == SatSub(base_fee, slot_relayer_reward)
        message_reward ==
            PermillMul(cfg.message_relayers_reward_ratio, bridger_relayers_reward)
        confirm_reward ==
            PermillMul(cfg.confirm_relayers_reward_ratio, bridger_relayers_reward)
    IN  [to_treasury |-> Some(SatSub(total_reward, base_fee)),
         to_slot_relayer |-> Some(<<slot_relayer_id, slot_relayer_reward>>),
         to_message_relayer |-> Some(<<message_relayer_id, message_reward>>),
         to_confirm_relayer |-> Some(<<confirm_relayer_id, confirm_reward>>)]

\* A late split that still books a treasury share, as the in-time split does
cal_reward_after_deadline_with_treasury(message_relayer_id, confirm_relayer_id, total_reward) ==
    [to_slot_relayer |-> None,
     to_treasury |-> Some(0),
     to_message_relayer |->
         Some(<<message_relayer_id,
                PermillMul(cfg.message_relayers_reward_ratio, total_reward)>>),
     to_confirm_relayer |->
         Some(<<confirm_relayer_id,
                PermillMul(cfg.confirm_relayers_reward_ratio, total_reward)>>)]

\* cal_reward_after_deadline: the reward item of an order confirmed out of deadline
cal_reward_after_deadline(message_relayer_id, confirm_relayer_id, total_reward) ==
    [to_slot_relayer |-> None,
     to_treasury |-> None,
     to_message_relayer |->
         Some(<<message_relayer_id,
                PermillMul(cfg.message_relayers_reward_ratio, total_reward)>>),
     to_confirm_relayer |->
         Some(<<confirm_relayer_id,
                PermillMul(cfg.confirm_relayers_reward_ratio, total_reward)>>)]

\* slash_assigned_relayer: st is the ledger (collateral, balance, slash reports);
\* returns the ledger after the slash and the amount moved.  The debug assertion
\* locked_collateral >= amount is compiled out of the runtime; its outcome is kept
\* in the report.
slash_assigned_relayer(st, order, who, fund_account, amount) ==
    LET locked_collateral == st.collateral[who]
        pay_result == CurrencyTransfer(st.balance, who, fund_account, amount, FALSE)
        report == [message |-> order.message, who |-> who, amount |-> amount,
                   locked_before |-> locked_collateral,
                   asserted |-> locked_collateral >= amount,
                   moved |-> IF IsOk(pay_result) THEN amount ELSE 0,
                   locked_after |-> IF IsOk(pay_result)
                                    THEN SatSub(locked_collateral, amount)
                                    ELSE locked_collateral]
    IN  IF IsOk(pay_result)
        THEN [st |-> [collateral |-> [st.collateral EXCEPT
                                         ![who] = SatSub(locked_collateral, amount)],
                      balance |-> pay_result.ok,
                      reports |-> Append(st.reports, report)],
              amount |-> amount]
        ELSE [st |-> [collateral |-> [st.collateral EXCEPT ![who] = locked_collateral],
                      balance |-> st.balance,
                      reports |-> Append(st.reports, report)],
              amount |-> 0]

\* for relayer in lazy_relayers: slash the ratio of its collateral, add it to the
\* reward.  acc is [st, total_reward].
RECURSIVE SlashLazyRelayers(_, _, _, _, _)
SlashLazyRelayers(acc, order, lazy_relayers, i, fund_account) ==
    IF i > Len(lazy_relayers) THEN acc
    ELSE LET relayer == lazy_relayers[i]
             slashed == slash_assigned_relayer(acc.st, order, relayer.id, fund_account,
                            PermillMul(cfg.assigned_relayer_slash_ratio,
                                       acc.st.collateral[relayer.id]))
         IN  SlashLazyRelayers([st |-> slashed.st,
                                total_reward |-> acc.total_reward + slashed.amount],
                               order, lazy_relayers, i + 1, fund_account)

\* order.relayers_slice().into_iter().take(relayer_index - 1)
LazyRelayers(order, relayer_index) ==
    SubSeq(order.assigned_relayers, 1, Min(relayer_index - 1, Len(order.assigned_relayers)))

\* An out-of-deadline loop that caps the running amount before it grows, not after
RECURSIVE SlashAllRelayersCapFirst(_, _, _, _)
SlashAllRelayersCapFirst(acc, order, i, fund_account) ==
    IF i > Len(order.assigned_relayers) THEN acc
    ELSE LET relayer == order.assigned_relayers[i]
             capped == IF IsSome(cfg.collateral_slash_protect)
                       THEN Min(acc.slash_amount, cfg.collateral_slash_protect.some)
                       ELSE acc.slash_amount
             slash_amount == capped + PermillMul(cfg.assigned_relayer_slash_ratio,
                                                 acc.st.collateral[relayer.id])
             slashed == slash_assigned_relayer(acc.st, order, relayer.id, fund_account,
                                               slash_amount)
         IN  SlashAllRelayersCapFirst([st |-> slashed.st,
                                       total_reward |-> acc.total_reward + slashed.amount,
                                       slash_amount |-> slash_amount],
                                      order, i + 1, fund_account)

\* for relayer in order.relayers_slice(): slash_amount grows by the ratio of the
\* relayer's collateral, is capped by the slash protection, and is slashed.
\* acc is [st, total_reward, slash_amount].
RECURSIVE SlashAllRelayers(_, _, _, _)
SlashAllRelayers(acc, order, i, fund_account) ==
    IF i > Len(order.assigned_relayers) THEN acc
    ELSE LET relayer == order.assigned_relayers[i]
             grown == acc.slash_amount
                      + PermillMul(cfg.assigned_relayer_slash_ratio,
                                   acc.st.collateral[relayer.id])
             slash_amount == IF IsSome(cfg.collateral_slash_protect)
                             THEN Min(grown, cfg.collateral_slash_protect.some)
                             ELSE grown
             slashed == slash_assigned_relayer(acc.st, order, relayer.id, fund_account,
                                               slash_amount)
         IN  SlashAllRelayers([st |-> slashed.st,
                               total_reward |-> acc.total_reward + slashed.amount,
                               slash_amount |-> slash_amount],
                              order, i + 1, fund_account)

\* A match whose first arm never matches: an order confirmed in its first slot falls
\* through to the out-of-deadline arm
OrderRewardWithoutFirstArm(st, order, message_relayer, confirm_relayer, fund_account) ==
    LET order_confirm_time == IF IsSome(order.confirm_time) THEN order.confirm_time.some
                              ELSE cfg.block_number
        total_reward == OrderFee(order)
        info == DeliveryInfo(order, order_confirm_time)
    IN  IF IsSome(info) /\ info.some.relayer_index >= 1
        THEN LET acc == SlashLazyRelayers([st |-> st, total_reward |-> total_reward],
                            order, LazyRelayers(order, info.some.relayer_index), 1,
                            fund_account)
             IN  [st |-> acc.st,
                  item |-> cal_rewards_before_deadline(info.some.slot_relayer_id,
                               message_relayer, confirm_relayer, acc.total_reward,
                               info.some.base_fee)]
        ELSE LET delay == IF IsSome(DeliveryDelay(order)) THEN DeliveryDelay(order).some
                          ELSE 0
                 acc == SlashAllRelayers(
                            [st |-> st, total_reward |-> total_reward,
                             slash_amount |-> CalSlashAmount(order.locked_collateral, delay)],
                            order, 1, fund_account)
             IN  [st |-> acc.st,
                  item |-> cal_reward_after_deadline(message_relayer, confirm_relayer,
                                                     acc.total_reward)]

\* The body of the nonce loop for one order: the match on order.delivery_info.
\* Returns the ledger after the slashes and the order's reward item.
OrderReward(st, order, message_relayer, confirm_relayer, fund_account) ==
    LET order_confirm_time == IF IsSome(order.confirm_time) THEN order.confirm_time.some
                              ELSE cfg.block_number
        total_reward == OrderFee(order)
        info == DeliveryInfo(order, order_confirm_time)
    IN  IF IsSome(info) /\ info.some.relayer_index = 0
        THEN [st |-> st,
              item |-> cal_rewards_before_deadline(info.some.slot_relayer_id,
                           message_relayer, confirm_relayer, total_reward,
                           info.some.base_fee)]
        ELSE IF IsSome(info) /\ info.some.relayer_index >= 1
        THEN LET acc == SlashLazyRelayers([st |-> st, total_reward |-> total_reward],
                            order, LazyRelayers(order, info.some.relayer_index), 1,
                            fund_account)
             IN  [st |-> acc.st,
                  item |-> cal_rewards_before_deadline(info.some.slot_relayer_id,
                               message_relayer, confirm_relayer, acc.total_reward,
                               info.some.base_fee)]
        ELSE LET delay == IF IsSome(DeliveryDelay(order)) THEN DeliveryDelay(order).some
                          ELSE 0
                 acc == SlashAllRelayers(
                            [st |-> st, total_reward |-> total_reward,
                             slash_amount |-> CalSlashAmount(order.locked_collateral, delay)],
                            order, 1, fund_account)
             IN  [st |-> acc.st,
                  item |-> cal_reward_after_deadline(message_relayer, confirm_relayer,
                                                     acc.total_reward)]

\* for message_nonce in nonce_begin..nonce_end + 1: the order is looked up under
\* (lane_id, message_nonce).  acc is [st, items, book].
RECURSIVE RewardNonces(_, _, _, _, _, _, _)
RewardNonces(acc, lane_id, message_nonce, nonce_end, message_relayer, confirm_relayer, fund_account) ==
    IF message_nonce > nonce_end THEN acc
    ELSE IF <<lane_id, message_nonce>> \notin DOMAIN orders
    THEN RewardNonces(acc, lane_id, message_nonce + 1, nonce_end, message_relayer,
                      confirm_relayer, fund_account)
    ELSE LET rewarded == OrderReward(acc.st, orders[<<lane_id, message_nonce>>],
                                     message_relayer, confirm_relayer, fund_account)
         IN  RewardNonces([st |-> rewarded.st,
                           items |-> Append(acc.items, [nonce |-> message_nonce,
                                                        item |-> rewarded.item]),
                           book |-> add_reward_item(acc.book, rewarded.item)],
                          lane_id, message_nonce + 1, nonce_end, message_relayer,
                          confirm_relayer, fund_account)

\* for entry in messages_relayers
RECURSIVE RewardEntries(_, _, _, _, _, _, _)
RewardEntries(acc, lane_id, messages_relayers, e, confirm_relayer, received_range, fund_account) ==
    IF e > Len(messages_relayers) THEN acc
    ELSE LET entry == messages_relayers[e]
             nonce_begin == Max(entry.messages.begin, received_range.start)
             nonce_end == Min(entry.messages.end, received_range.end)
         IN  RewardEntries(RewardNonces(acc, lane_id, nonce_begin, nonce_end,
                                        entry.relayer, confirm_relayer, fund_account),
                           lane_id, messages_relayers, e + 1, confirm_relayer,
                           received_range, fund_account)

\* slash_and_calculate_rewards: the ledger after the slashes, the OrderReward events
\* (items) and the rewards book
slash_and_calculate_rewards(lane_id, messages_relayers, confirm_relayer, received_range, relayer_fund_account) ==
    RewardEntries([st |-> [collateral |-> collateral, balance |-> balance,
                           reports |-> <<>>],
                   items |-> <<>>, book |-> NewRewardsBook],
                  lane_id, messages_relayers, 1, confirm_relayer, received_range,
                  relayer_fund_account)

\* A do_reward that gives up on the batch once a transfer has failed
do_reward_until_failure(pay, from, to, reward) ==
    IF reward = 0 \/ (\E i \in 1..Len(pay.paid) : ~pay.paid[i].ok) THEN pay
    ELSE LET pay_result == CurrencyTransfer(pay.balance, from, to, reward, TRUE)
         IN  [balance |-> IF IsOk(pay_result) THEN pay_result.ok ELSE pay.balance,
              paid |-> Append(pay.paid, [to |-> to, reward |-> reward,
                                         ok |-> IsOk(pay_result)])]

\* do_reward: nothing for a zero reward; a failed transfer is only logged.
\* pay is [balance, paid], paid the log of the transfers tried.
do_reward(pay, from, to, reward) ==
    IF reward = 0 THEN pay
    ELSE LET pay_result == CurrencyTransfer(pay.balance, from, to, reward, TRUE)
         IN  [balance |-> IF IsOk(pay_result) THEN pay_result.ok ELSE pay.balance,
              paid |-> Append(pay.paid, [to |-> to, reward |-> reward,
                                         ok |-> IsOk(pay_result)])]

\* The (relayer, reward) pairs of a BTreeMap, in the order of the keys
RECURSIVE RewardMap(_)
RewardMap(map) ==
    IF DOMAIN map = {} THEN <<>>
    ELSE LET relayer == CHOOSE r \in DOMAIN map : \A o \in DOMAIN map : r <= o
         IN  <<[to |-> relayer, reward |-> map[relayer]]>>
             \o RewardMap([k \in DOMAIN map \ {relayer} |-> map[k]])

\* The rewards pay_relayers_rewards pays, in its order: the confirmation relayer, the
\* message relayers, the assigned relayers, the treasury
Rewards(book, confirmation_relayer) ==
    <<[to |-> confirmation_relayer, reward |-> book.confirm_sum]>>
    \o RewardMap(book.deliver_sum)
    \o RewardMap(book.assigned_relayers_sum)
    \o <<[to |-> TreasuryAccount, reward |-> book.treasury_sum]>>

\* do_reward for each reward in turn
RECURSIVE DoRewards(_, _, _, _)
DoRewards(pay, from, rewards, i) ==
    IF i > Len(rewards) THEN pay
    ELSE DoRewards(do_reward(pay, from, rewards[i].to, rewards[i].reward), from, rewards, i + 1)

\* pay_relayers_rewards: the ledger after the slashes and the rewards, with the slash
\* reports, the reward items, the rewards book and the transfers tried
PaidOut(calc, relayer_fund_account, confirmation_relayer) ==
    LET pay == DoRewards([balance |-> calc.st.balance, paid |-> <<>>],
                         relayer_fund_account, Rewards(calc.book, confirmation_relayer), 1)
    IN  [st |-> [calc.st EXCEPT !.balance = pay.balance],
         items |-> calc.items, book |-> calc.book, paid |-> pay.paid]

pay_relayers_rewards(lane_id, messages_relayers, confirmation_relayer, received_range, relayer_fund_account) ==
    PaidOut(slash_and_calculate_rewards(lane_id, messages_relayers, confirmation_relayer,
                                        received_range, relayer_fund_account),
            relayer_fund_account, confirmation_relayer)

(***************************************************************************)
(* source::FromThisChainMessageVerifier and the outbound lane              *)
(***************************************************************************)
MESSAGE_REJECTED_BY_OUTBOUND_LANE == "The outbound message lane has rejected the message."
TOO_MANY_PENDING_MESSAGES == "Too many pending messages at the lane."
BAD_ORIGIN == "Unable to match the source origin to expected target origin."
TOO_LOW_FEE == "Provided fee is below minimal threshold required by the lane."
NO_MARKET_FEE == "The fee market are not ready for accepting messages."

\* ThisChain::is_message_accepted: one lane is open
is_message_accepted(submitter, lane) == lane = "lane"

\* MAXIMAL_PENDING_MESSAGES_AT_TEST_LANE
MAXIMAL_PENDING_MESSAGES_AT_TEST_LANE == 32

\* ThisChain::maximal_pending_messages_at_outbound_lane()
maximal_pending_messages_at_outbound_lane == MAXIMAL_PENDING_MESSAGES_AT_TEST_LANE

\* FromThisChainMessageVerifier::verify_message; market_fee is what
\* pallet_fee_market::market_fee() returns.  The submitter is Ok(raw origin) or
\* Err(custom origin); neither arm of the origin conversion does anything.
verify_message(submitter, delivery_and_dispatch_fee, lane, lane_outbound_data, payload, market_fee) ==
    IF ~is_message_accepted(submitter, lane) THEN Err(MESSAGE_REJECTED_BY_OUTBOUND_LANE)
    ELSE IF SatSub(lane_outbound_data.latest_generated_nonce,
                   lane_outbound_data.latest_received_nonce)
            > maximal_pending_messages_at_outbound_lane
    THEN Err(TOO_MANY_PENDING_MESSAGES)
    ELSE IF IsSome(market_fee)
    THEN IF delivery_and_dispatch_fee < market_fee.some THEN Err(TOO_LOW_FEE) ELSE Ok("unit")
    ELSE Err(NO_MARKET_FEE)

\* The messages pallet's send_message: the verifier, then the lane takes the message
\* under the next nonce
send_message(data, submitter, delivery_and_dispatch_fee, lane, payload, market_fee) ==
    LET verdict == verify_message(submitter, delivery_and_dispatch_fee, lane, data, payload,
                                  market_fee)
    IN  [verdict |-> verdict,
         data |-> IF IsOk(verdict)
                  THEN [data EXCEPT !.latest_generated_nonce = @ + 1]
                  ELSE data]

\* The messages pallet's confirmation of the delivery of the nonces up to `nonce`
confirm_delivery(data, nonce) ==
    IF nonce > data.latest_received_nonce /\ nonce <= data.latest_generated_nonce
    THEN [data EXCEPT !.latest_received_nonce = nonce]
    ELSE data

(***************************************************************************)
(* The inbound lane in front of Pallet::dispatch                           *)
(***************************************************************************)
\* An inbound lane that takes any nonce it is handed
receive_message_any_nonce(lane, nonce, message) ==
    [lane EXCEPT !.last_delivered_nonce = nonce,
                 !.results = Append(@, [nonce |-> nonce, result |-> "Dispatched"]),
                 !.out = Append(@, Dispatch(SOURCE_CHAIN_ID, TARGET_CHAIN_ID, 1,
                                            [lane |-> "lane", nonce |-> nonce], message, TRUE))]

\* The inbound lane's receive_message: only the nonce after the last delivered one is
\* taken and handed to dispatch.  `lane` holds the last delivered nonce, the result of
\* each message of the delivery and what dispatch did with the messages it was handed.
receive_message(lane, nonce, message) ==
    IF nonce # lane.last_delivered_nonce + 1
    THEN [lane EXCEPT !.results = Append(@, [nonce |-> nonce, result |-> "InvalidNonce"])]
    ELSE [lane EXCEPT !.last_delivered_nonce = nonce,
                      !.results = Append(@, [nonce |-> nonce, result |-> "Dispatched"]),
                      !.out = Append(@, Dispatch(SOURCE_CHAIN_ID, TARGET_CHAIN_ID, 1,
                                                 [lane |-> "lane", nonce |-> nonce],
                                                 message, TRUE))]

\* A delivery that gives up on the rest of its range once a message was not
\* dispatched with success
RECURSIVE receive_messages_until_failure(_, _, _, _)
receive_messages_until_failure(lane, messages, nonce, end) ==
    IF nonce > end THEN lane
    ELSE IF lane.out # <<>> /\ ~lane.out[Len(lane.out)].result.dispatch_result THEN lane
    ELSE receive_messages_until_failure(receive_message(lane, nonce, messages[nonce]),
                                        messages, nonce + 1, end)

\* The messages pallet's receive_messages_proof for the proved messages of the nonces
\* nonce..end, in the order of the nonces
RECURSIVE receive_messages(_, _, _, _)
receive_messages(lane, messages, nonce, end) ==
    IF nonce > end THEN lane
    ELSE receive_messages(receive_message(lane, nonce, messages[nonce]), messages,
                          nonce + 1, end)

\* The events and the executions of the outcomes of a delivery, in order
RECURSIVE OutcomesEvents(_)
OutcomesEvents(out) ==
    IF out = <<>> THEN <<>> ELSE out[1].events \o OutcomesEvents(Tail(out))
RECURSIVE OutcomesExecutions(_)
OutcomesExecutions(out) ==
    IF out = <<>> THEN <<>> ELSE out[1].executions \o OutcomesExecutions(Tail(out))

(***************************************************************************)
(* ethereum-clique-variant: the pool's acceptance of unsigned headers      *)
(***************************************************************************)
\* pool_configuration()
PoolConfig == [max_future_number_difference |-> 10]

\* A header is given by its number, its hash, its parent's hash, the contextless
\* checks its fields fail, whether its timestamp is too close to its parent's, and the
\* verdict of validator_checks on its seal.
\* A storage holds the finalized and the best block and the headers, by hash.

\* The checks of contextless_checks, in their order, by the error of each
ContextlessErrors ==
    <<"HeaderTimestampIsAhead", "MissingVanity", "MissingSignature", "RidiculousNumber",
      "ExtraValidators", "InvalidCheckpointValidators", "InvalidMixDigest",
      "InvalidUncleHash", "InvalidDifficulty", "InvalidNonce", "TooMuchGasUsed",
      "InvalidGasLimit">>

\* A pre-check that lets in a new header of the finalized number
is_importable_header_at_finalized(storage, header) ==
    IF header.number < storage.finalized.number THEN Err("AncientHeader")
    ELSE IF header.hash \in DOMAIN storage.headers THEN Err("KnownHeader")
    ELSE Ok(<<[number |-> header.number, hash |-> header.hash], storage.finalized>>)

\* is_importable_header
is_importable_header(storage, header) ==
    IF header.number <= storage.finalized.number THEN Err("AncientHeader")
    ELSE IF header.hash \in DOMAIN storage.headers THEN Err("KnownHeader")
    ELSE Ok(<<[number |-> header.number, hash |-> header.hash], storage.finalized>>)

\* contextless_checks: the genesis block, of number 0, is always valid; for any other
\* header, the error of the first check the header fails
contextless_checks(header) ==
    LET failed == {i \in 1..Len(ContextlessErrors) : ContextlessErrors[i] \in header.fails}
    IN  IF header.number = 0 THEN Ok("unit")
        ELSE IF failed = {} THEN Ok("unit")
        ELSE Err(ContextlessErrors[CHOOSE i \in failed : \A j \in failed : i <= j])

\* storage.import_context(None, parent_hash)
import_context(storage, parent_hash) ==
    IF parent_hash \in DOMAIN storage.headers
    THEN Some([parent_hash |-> parent_hash, parent_header |-> storage.headers[parent_hash]])
    ELSE None

\* contextual_checks
contextual_checks(context, header) ==
    IF context.parent_hash # header.parent_hash
       \/ context.parent_header.number + 1 # header.number
    THEN Err("UnknownAncestor")
    ELSE IF header.timestamp_too_close THEN Err("HeaderTimestampTooClose")
    ELSE Ok("unit")

\* validator_checks: the header is sealed by the validator whose turn it is
validator_checks(header) ==
    IF header.sealed_by_validator THEN Ok("unit") ELSE Err("NotValidator")

\* A future-number check that turns away the header at the limit too
TooFarInTheFutureAtLimit(storage, pool_config, header) ==
    SatSub(header.number, storage.best.number) >= pool_config.max_future_number_difference

\* the future-number check of accept_clique_header_into_pool
TooFarInTheFuture(storage, pool_config, header) ==
    SatSub(header.number, storage.best.number) > pool_config.max_future_number_difference

\* The tags of an accepted header: a header whose parent is not in the storage
\* requires its parent to be in the pool
PoolTags(header, parent_known) ==
    <<IF parent_known THEN <<>>
      ELSE <<[number |-> header.number - 1, hash |-> header.parent_hash]>>,
      <<"number_and_authority", [number |-> header.number, hash |-> header.hash]>>>>

\* accept_clique_header_into_pool
accept_clique_header_into_pool(storage, pool_config, header) ==
    IF IsErr(is_importable_header(storage, header))
    THEN is_importable_header(storage, header)
    ELSE IF IsErr(contextless_checks(header)) THEN contextless_checks(header)
    ELSE IF TooFarInTheFuture(storage, pool_config, header)
    THEN Err("UnsignedTooFarInTheFuture")
    ELSE LET context == import_context(storage, header.parent_hash)
         IN  IF IsSome(context)
             THEN IF IsErr(contextual_checks(context.some, header))
                  THEN contextual_checks(context.some, header)
                  ELSE IF IsErr(validator_checks(header)) THEN validator_checks(header)
                  ELSE Ok(PoolTags(header, TRUE))
             ELSE IF IsErr(validator_checks(header)) THEN validator_checks(header)
                  ELSE Ok(PoolTags(header, FALSE))

\* A validation that bans every header it does not accept
validate_unsigned_banning(storage, call) ==
    IF call.kind # "import_unsigned_header" THEN Err([invalid |-> "Call"])
    ELSE LET accept_result == accept_clique_header_into_pool(storage, PoolConfig, call.header)
         IN  IF IsOk(accept_result)
             THEN Ok([requires |-> accept_result.ok[1], provides |-> accept_result.ok[2],
                      propagate |-> TRUE])
             ELSE Err([invalid |-> accept_result.err])

\* ValidateUnsigned::validate_unsigned
validate_unsigned(storage, call) ==
    IF call.kind # "import_unsigned_header" THEN Err([invalid |-> "Call"])
    ELSE LET accept_result == accept_clique_header_into_pool(storage, PoolConfig, call.header)
         IN  IF IsOk(accept_result)
             THEN Ok([requires |-> accept_result.ok[1], provides |-> accept_result.ok[2],
                      propagate |-> TRUE])
             ELSE IF accept_result.err = "UnsignedTooFarInTheFuture"
             THEN Err([unknown |-> accept_result.err])
             ELSE Err([invalid |-> accept_result.err])

(***************************************************************************)
(* ethereum-clique-variant: pruning                                        *)
(***************************************************************************)
MAX_BLOCKS_TO_PRUNE_IN_SINGLE_IMPORT == 8

\* The storage of the pruning: Headers (by hash), HeadersByNumber (the hashes of a
\* number, a Vec), BlocksToPrune and FinalizedBlock.  A hash is <<number, index>>.

\* The test of a stored block in the guard of prune_blocks_by_hashes: the header is
\* a checkpoint, header.number % epoch_length == 0, the blocks that carry a list of
\* validators (contextless_checks' is_checkpoint); a block without header is not
SignalsValidatorsChange(headers, block, clique_variant_config) ==
    IF block \in DOMAIN headers
    THEN headers[block].number % clique_variant_config.epoch_length = 0
    ELSE FALSE

\* The loop of prune_blocks_by_hashes: pop a hash, take its header, count it
RECURSIVE PopAndTake(_, _, _)
PopAndTake(max_blocks_to_prune, headers, blocks_at_number) ==
    IF blocks_at_number = <<>>
    THEN [max |-> max_blocks_to_prune, headers |-> headers, blocks |-> blocks_at_number]
    ELSE LET hash == blocks_at_number[Len(blocks_at_number)]
             rest == SubSeq(blocks_at_number, 1, Len(blocks_at_number) - 1)
             taken == [h \in DOMAIN headers \ {hash} |-> headers[h]]
         IN  IF max_blocks_to_prune - 1 = 0
             THEN [max |-> 0, headers |-> taken, blocks |-> rest]
             ELSE PopAndTake(max_blocks_to_prune - 1, taken, rest)

\* A pruning of the hashes of a number that does not look for validators changes
prune_blocks_by_hashes_unguarded(max_blocks_to_prune, finalized_number, number, blocks_at_number, headers, clique_variant_config) ==
    PopAndTake(max_blocks_to_prune, headers, blocks_at_number)

\* A pruning of the hashes of a number that looks at its budget only when it is done
prune_blocks_by_hashes_whole_number(max_blocks_to_prune, finalized_number, number, blocks_at_number, headers, clique_variant_config) ==
    IF number > finalized_number
       /\ \E k \in 1..Len(blocks_at_number) :
              SignalsValidatorsChange(headers, blocks_at_number[k], clique_variant_config)
    THEN [max |-> max_blocks_to_prune, headers |-> headers, blocks |-> blocks_at_number]
    ELSE [max |-> SatSub(max_blocks_to_prune, Len(blocks_at_number)),
          headers |-> [h \in DOMAIN headers \ {blocks_at_number[k] : k \in 1..Len(blocks_at_number)}
                         |-> headers[h]],
          blocks |-> <<>>]

\* prune_blocks_by_hashes
prune_blocks_by_hashes(max_blocks_to_prune, finalized_number, number, blocks_at_number, headers, clique_variant_config) ==
    IF number > finalized_number
       /\ \E k \in 1..Len(blocks_at_number) :
              SignalsValidatorsChange(headers, blocks_at_number[k], clique_variant_config)
    THEN [max |-> max_blocks_to_prune, headers |-> headers, blocks |-> blocks_at_number]
    ELSE PopAndTake(max_blocks_to_prune, headers, blocks_at_number)

\* The loop of prune_blocks over the numbers begin..end; st holds the budget, the
\* storage maps and the new pruning range
RECURSIVE PruneNumbers(_, _, _, _, _)
PruneNumbers(st, finalized_number, number, end, clique_variant_config) ==
    IF number >= end \/ st.max = 0 THEN st
    ELSE IF number \in DOMAIN st.headers_by_number
    THEN LET pruned == prune_blocks_by_hashes(st.max, finalized_number, number,
                                              st.headers_by_number[number], st.headers,
                                              clique_variant_config)
             without == [n \in DOMAIN st.headers_by_number \ {number} |->
                            st.headers_by_number[n]]
         IN  IF pruned.blocks # <<>>
             THEN [st EXCEPT !.max = pruned.max, !.headers = pruned.headers,
                             !.headers_by_number[number] = pruned.blocks]
             ELSE PruneNumbers([max |-> pruned.max, headers |-> pruned.headers,
                                headers_by_number |-> without,
                                range |-> [st.range EXCEPT !.oldest_unpruned_block = number + 1]],
                               finalized_number, number + 1, end, clique_variant_config)
    ELSE PruneNumbers([st EXCEPT !.range.oldest_unpruned_block = number + 1],
                      finalized_number, number + 1, end, clique_variant_config)

\* A pruning that takes every prune_end as the new end of its range
prune_blocks_end_as_given(storage, max_blocks_to_prune, finalized_number, prune_end, clique_variant_config) ==
    LET new_pruning_range == [storage.blocks_to_prune EXCEPT !.oldest_block_to_keep = prune_end]
        st == PruneNumbers([max |-> max_blocks_to_prune, headers |-> storage.headers,
                            headers_by_number |-> storage.headers_by_number,
                            range |-> new_pruning_range],
                           finalized_number, new_pruning_range.oldest_unpruned_block,
                           new_pruning_range.oldest_block_to_keep, clique_variant_config)
    IN  [storage EXCEPT !.headers = st.headers,
                        !.headers_by_number = st.headers_by_number,
                        !.blocks_to_prune = st.range]

\* prune_blocks; clique_variant_config is T::CliqueVariantConfiguration::get()
prune_blocks(storage, max_blocks_to_prune, finalized_number, prune_end, clique_variant_config) ==
    LET pruning_range == storage.blocks_to_prune
        new_pruning_range ==
            IF prune_end > pruning_range.oldest_block_to_keep
            THEN [pruning_range EXCEPT !.oldest_block_to_keep = prune_end]
            ELSE pruning_range
        st == PruneNumbers([max |-> max_blocks_to_prune, headers |-> storage.headers,
                            headers_by_number |-> storage.headers_by_number,
                            range |-> new_pruning_range],
                           finalized_number, new_pruning_range.oldest_unpruned_block,
                           new_pruning_range.oldest_block_to_keep, clique_variant_config)
    IN  [storage EXCEPT !.headers = st.headers,
                        !.headers_by_number = st.headers_by_number,
                        !.blocks_to_prune = st.range]

\* finalize_and_prune_headers
finalize_and_prune_headers(storage, finalized, prune_end, clique_variant_config) ==
    LET finalized_number == IF IsSome(finalized) THEN finalized.some.number
                            ELSE storage.finalized.number
        stored == IF IsSome(finalized) THEN [storage EXCEPT !.finalized = finalized.some]
                  ELSE storage
    IN  prune_blocks(stored, MAX_BLOCKS_TO_PRUNE_IN_SINGLE_IMPORT, finalized_number, prune_end,
                     clique_variant_config)

\* initialize_storage: the initial header is the best and the finalized block, and the
\* pruning range is empty at its number
initialize_storage(initial_header) ==
    [best |-> [number |-> initial_header.number, hash |-> initial_header.hash],
     finalized |-> [number |-> initial_header.number, hash |-> initial_header.hash],
     blocks_to_prune |-> [oldest_unpruned_block |-> initial_header.number,
                          oldest_block_to_keep |-> initial_header.number],
     headers_by_number |-> [n \in {initial_header.number} |-> <<initial_header.hash>>],
     headers |-> [h \in {initial_header.hash} |-> [number |-> initial_header.number]]]

\* HeadersByNumber::append(number, hash)
HeadersByNumberAppend(headers_by_number, number, hash) ==
    [n \in DOMAIN headers_by_number \cup {number} |->
        IF n = number
        THEN (IF n \in DOMAIN headers_by_number THEN headers_by_number[n] ELSE <<>>) \o <<hash>>
        ELSE headers_by_number[n]]

\* An insertion that does not list the hash under its number
insert_header_unlisted(storage, header) ==
    [storage EXCEPT !.headers = [h \in DOMAIN storage.headers \cup {header.id.hash} |->
                                    IF h = header.id.hash THEN header.header
                                    ELSE storage.headers[h]]]

\* BridgeStorage::insert_header
insert_header(storage, header) ==
    [storage EXCEPT
        !.best = IF header.is_best THEN header.id ELSE @,
        !.headers_by_number = HeadersByNumberAppend(@, header.id.number, header.id.hash),
        !.headers = [h \in DOMAIN storage.headers \cup {header.id.hash} |->
                        IF h = header.id.hash THEN header.header ELSE storage.headers[h]]]

\* import::import_header: the pre-check, the verification (given by its verdict), the
\* insertion, then the finalization and the pruning the import has decided on
import_header(storage, header, verified, finalized, prune_end, clique_variant_config) ==
    LET importable == is_importable_header(storage, header)
    IN  IF IsErr(importable) THEN [storage |-> storage, result |-> importable]
        ELSE IF ~verified THEN [storage |-> storage, result |-> Err("NotValidator")]
        ELSE LET inserted == insert_header(storage,
                                 [id |-> importable.ok[1],
                                  header |-> [number |-> header.number],
                                  is_best |-> header.number > storage.best.number])
             IN  [storage |-> finalize_and_prune_headers(inserted, finalized, prune_end,
                                                         clique_variant_config),
                  result |-> Ok(importable.ok[1])]

(***************************************************************************)
(* ethereum-clique-variant: verify_transaction_finalized                   *)
(***************************************************************************)
\* A storage of headers by hash; a header has a number, a parent_hash and a
\* transactions_root.

\* The root of a list of transactions: a hash of the whole list, in its order
TransactionsRoot(transactions) == [root_of |-> transactions]

\* CliqueHeader::check_transactions_root
check_transactions_root(header, transactions) ==
    IF TransactionsRoot(transactions) = header.transactions_root THEN Ok(TRUE)
    ELSE Err(TransactionsRoot(transactions))

\* ancestry(storage, parent_hash): the headers from parent_hash down its parents, as
\* far as they are stored and not of number 0
RECURSIVE ancestry(_, _)
ancestry(storage, parent_hash) ==
    IF parent_hash \notin DOMAIN storage.headers THEN <<>>
    ELSE IF storage.headers[parent_hash].number = 0 THEN <<>>
    ELSE <<[hash |-> parent_hash, header |-> storage.headers[parent_hash]]>>
         \o ancestry(storage, storage.headers[parent_hash].parent_hash)

\* skip_while(|(_, ancestor)| ancestor.number > header.number)
RECURSIVE SkipWhileAbove(_, _)
SkipWhileAbove(ancestors, number) ==
    IF ancestors = <<>> THEN <<>>
    ELSE IF ancestors[1].header.number > number THEN SkipWhileAbove(Tail(ancestors), number)
    ELSE ancestors

\* A finality check that trusts every stored header below the finalized number
is_finalized_by_number(storage, block, header) ==
    IF header.number < storage.finalized.number THEN TRUE
    ELSE block = storage.finalized.hash

\* is_finalized: the block is the finalized block or one of its ancestors
is_finalized(storage, block, header) ==
    IF header.number < storage.finalized.number
    THEN LET ancestors == SkipWhileAbove(ancestry(storage, storage.finalized.hash),
                                         header.number)
         IN  \E i \in 1..Len(ancestors) : ancestors[i].hash = block
    ELSE block = storage.finalized.hash

\* verify_transaction_finalized
verify_transaction_finalized(storage, block, tx_index, proof) ==
    IF tx_index >= Len(proof) THEN FALSE
    ELSE IF block \notin DOMAIN storage.headers THEN FALSE
    ELSE LET header == storage.headers[block]
         IN  IF header.number > storage.finalized.number THEN FALSE
             ELSE IF ~is_finalized(storage, block, header) THEN FALSE
             ELSE IsOk(check_transactions_root(header, proof))

(***************************************************************************)
(* The inputs of the model.                                                *)
(***************************************************************************)
\* declared weights: below, at and above the calls' weights, in either component
Weights == {W(0, 0), W(1, 0), W(2, 0), W(3, 1)}
SpecVersions == {TEST_SPEC_VERSION, 99}
FeePayments == {"AtSourceChain", "AtTargetChain"}
LaneId == "lane"

\* MessagePayload
Payload(spec_version, weight, origin, dispatch_fee_payment, call) ==
    [spec_version |-> spec_version, weight |-> weight, origin |-> origin,
     dispatch_fee_payment |-> dispatch_fee_payment, call |-> call]

\* The call a signer of the payload has in mind: the decoded call, or remark when the
\* bytes do not decode.
SignedCall(bytes) == IF IsOk(DecodeCall(bytes)) THEN DecodeCall(bytes).ok ELSE Remark

\* Signatures a TargetAccount origin may carry for (source account id, target public
\* key): the owner's signature of the ownership digest, the same digest signed by
\* another key, and the owner's signature made for another target chain (which the
\* test runtime's signature does not tell from the first).
Signatures(id, public, spec_version, bytes) ==
    { [signer |-> public.key,
       signed |-> account_ownership_digest(SignedCall(bytes), id, spec_version,
                                           SOURCE_CHAIN_ID, TARGET_CHAIN_ID)],
      [signer |-> id,
       signed |-> account_ownership_digest(SignedCall(bytes), id, spec_version,
                                           SOURCE_CHAIN_ID, TARGET_CHAIN_ID)],
      [signer |-> public.key,
       signed |-> account_ownership_digest(SignedCall(bytes), id, spec_version,
                                           SOURCE_CHAIN_ID, "othr")] }

\* The origins of the messages a relayer delivers: source account 1, target key 2
DeliveredOrigins(spec_version, bytes) ==
    {SourceRoot, SourceAccountOrigin(1)}
    \cup { TargetAccountOrigin(1, [key |-> 2], sig) :
             sig \in Signatures(1, [key |-> 2], spec_version, bytes) }

\* What the lane hands to dispatch: a payload, or Err for a message it rejected
DeliveredMessages ==
    {Err("rejected")}
    \cup UNION { { Ok(Payload(v, w, o, f, c)) : o \in DeliveredOrigins(v, c) } :
                 v \in SpecVersions, w \in Weights, f \in FeePayments, c \in EncodedCalls }

\* What the pay_dispatch_fee closure may return; it matters only if it can be called
PayOutcomes(message) ==
    IF IsOk(message) /\ message.ok.dispatch_fee_payment = "AtTargetChain"
    THEN BOOLEAN ELSE {TRUE}

\* DispatchInfo of the calls, and what call.dispatch(origin) may return for a
\* runtime whose calls report their post-dispatch weight
DispatchInfos == { GetDispatchInfo(c) : c \in {Remark, SetHeapPages, FillBlock} }
PostDispatchInfos ==
    [actual_weight : {None} \cup { Some(w) : w \in Weights }, pays_fee : {"Yes", "No"}]
CallResults ==
    { Ok(p) : p \in PostDispatchInfos }
    \cup { Err([error |-> "BadOrigin", post_info |-> p]) : p \in PostDispatchInfos }

\* Who submits messages to the lane, what they declare, what they pay, and where
LaneSubmitters == {Ok(RawRoot), Ok(RawSigned(1)), Ok(RawSigned(2)), Err("custom")}
LanePayloads ==
    { Payload(TEST_SPEC_VERSION, W(1, 0), o, "AtSourceChain", EncodeCall(Remark)) :
        o \in {SourceRoot, SourceAccountOrigin(1)} }
LaneFees == {5, 10}
Lanes == {"lane", "dsbl"}
MarketFees == {None, Some(10)}

\* The messages a relayer proves for the lane: nonce 2 is the message of another
\* version, the last nonce is one the lane rejected when `rejected`
ProvedMessages(rejected) ==
    [n \in 1..MaxNonce |->
        IF n = 2 THEN Ok(Payload(99, W(1, 0), SourceRoot, "AtSourceChain", EncodeCall(Remark)))
        ELSE IF n = MaxNonce /\ rejected THEN Err("rejected")
        ELSE Ok(Payload(TEST_SPEC_VERSION, W(1, 0), SourceRoot, "AtSourceChain",
                        EncodeCall(Remark)))]

\* The storages of the clique pallet: block 2 is finalized, the best block is 3 or 100
CliqueStorages ==
    { [finalized |-> [number |-> 2, hash |-> "finalized"],
       best |-> [number |-> b, hash |-> "best"],
       headers |-> [h \in {"finalized", "best", "stored"} |->
                      [number |-> CASE h = "finalized" -> 2 [] h = "best" -> b
                                    [] OTHER -> b - 1]]] :
      b \in {3, 100} }

\* The headers of unsigned import transactions
UnsignedHeaders ==
    [number : {2, 4, 13, 14, 101, 110, 111, 120},
     hash : {"new", "stored"},
     parent_hash : {"best", "unseen"},
     fails : {{}, {"TooMuchGasUsed"}, {"HeaderTimestampIsAhead", "InvalidGasLimit"}},
     timestamp_too_close : {FALSE},
     sealed_by_validator : BOOLEAN]
    \cup
    [number : {4, 101}, hash : {"new"}, parent_hash : {"best"}, fails : {{}},
     timestamp_too_close : {TRUE}, sealed_by_validator : {TRUE}]

\* The calls validate_unsigned is asked about
UnsignedCalls ==
    { [kind |-> "import_unsigned_header", header |-> h] : h \in UnsignedHeaders }
    \cup { [kind |-> "import_signed_header"] }

\* The headers a storage holds for pruning: one header of number 0 and `per` headers
\* of each number 1..4 (number 2 has none when `gap`), every one of them stored in
\* Headers but, when `lost`, the first of number 1
HeaderHashes(per, gap) ==
    [n \in {0} \cup {k \in 1..4 : ~(gap /\ k = 2)} |->
        IF n = 0 THEN <<<<0, 1>>>> ELSE [j \in 1..per |-> <<n, j>>]]
StoredHeaders(per, gap, lost) ==
    [h \in { <<n, j>> : n \in 0..4, j \in 1..per } \ 
           ({ <<0, j>> : j \in 2..per } \cup { <<2, j>> : j \in IF gap THEN 1..per ELSE {} }
            \cup (IF lost THEN {<<1, 1>>} ELSE {})) |->
        [number |-> h[1]]]
PruningStorages ==
    { [finalized |-> [number |-> f, hash |-> "finalized"],
       headers |-> StoredHeaders(p[1], p[2], p[3]),
       headers_by_number |-> HeaderHashes(p[1], p[2]),
       blocks_to_prune |-> [oldest_unpruned_block |-> r[1], oldest_block_to_keep |-> r[2]]] :
      f \in {0, 10},
      p \in {<<5, FALSE, FALSE>>, <<3, TRUE, FALSE>>, <<5, FALSE, TRUE>>},
      r \in {<<0, 0>>, <<0, 5>>, <<1, 3>>} }

\* The configurations of the runtime: the number of blocks between two checkpoints
CliqueVariantConfigurations == { [epoch_length |-> e] : e \in {2, 3} }

\* The budgets prune_blocks is called with, and the ends of the range to prune
PruneBudgets == {0, 1, 5, 7, 11}
PruneEnds == {0, 3, 5}

\* The headers offered for import: two of each number 0..3; the first of number 0 is
\* the initial header.  A hash is <<number, index>>.
ImportableHeaders == { [number |-> n, hash |-> <<n, j>>] : n \in 0..3, j \in 1..2 }
InitialHeader == [number |-> 0, hash |-> <<0, 1>>]

\* The blocks an import may finalize: none, or a stored block above the finalized one
Finalizable(storage, header) ==
    {None} \cup { Some([number |-> h.number, hash |-> h.hash]) :
                    h \in {x \in ImportableHeaders :
                             /\ x.number > storage.finalized.number
                             /\ x.number <= header.number
                             /\ (x.hash \in DOMAIN storage.headers \/ x = header)} }

\* The headers of the transaction finality checks: the chain g <- a1 <- a2 <- a3 <- a4,
\* the sibling b2 of a2 and its child b3, which is an uncle of a4.  A storage has
\* finalized a chain header, and may have pruned a1.
TxList == <<"tx1", "tx2">>
ChainHeaders ==
    [h \in {"g", "a1", "a2", "a3", "a4", "b2", "b3"} |->
        [number |-> CASE h = "g" -> 0 [] h = "a1" -> 1 [] h \in {"a2", "b2"} -> 2
                      [] h \in {"a3", "b3"} -> 3 [] OTHER -> 4,
         parent_hash |-> CASE h = "g" -> "none" [] h = "a1" -> "g" [] h \in {"a2", "b2"} -> "a1"
                           [] h = "a3" -> "a2" [] h = "b3" -> "b2" [] OTHER -> "a3",
         transactions_root |-> IF h = "a2" THEN TransactionsRoot(<<>>)
                               ELSE TransactionsRoot(TxList)]]
TxStorages ==
    { [finalized |-> [number |-> ChainHeaders[f].number, hash |-> f],
       headers |-> [h \in DOMAIN ChainHeaders \ lost |-> ChainHeaders[h]]] :
      f \in {"g", "a2", "a3"}, lost \in {{}, {"a1"}} }
TxBlocks == DOMAIN ChainHeaders \cup {"unknown"}
TxProofs == {<<>>, <<"tx1">>, TxList, <<"tx2", "tx1">>}
TxIndexes == 0..2

\* The origins a sender may declare when sending
DeclaredOrigins ==
    {SourceRoot}
    \cup { SourceAccountOrigin(a) : a \in Accounts }
    \cup { TargetAccountOrigin(a, [key |-> k],
               [signer |-> k,
                signed |-> account_ownership_digest(Remark, a, TEST_SPEC_VERSION,
                                                    SOURCE_CHAIN_ID, TARGET_CHAIN_ID)]) :
             a \in Accounts, k \in Accounts }

SentMessages ==
    { Payload(v, W(1, 0), o, f, c) :
        v \in SpecVersions, o \in DeclaredOrigins, f \in FeePayments, c \in EncodedCalls }

SenderOrigins == {RawRoot, RawNone} \cup { RawSigned(a) : a \in Accounts }

\* The raw values a proved message key may hold: a message with a payload, a
\* message without one, bytes that end early, no bytes
RawMessages == {EncodeMessageData([payload |-> <<7>>, fee |-> 5]), <<>>}
MessageReads == {ReadFailed, ReadAbsent} \cup {ReadValue(b) : b \in RawMessages}

RawLaneStates ==
    {EncodeOutboundLaneData([oldest_unpruned_nonce |-> 1, latest_received_nonce |-> 1,
                             latest_generated_nonce |-> 1]), <<>>}
LaneStateReads == {ReadFailed, ReadAbsent} \cup {ReadValue(b) : b \in RawLaneStates}

Nonces == 1..MaxNonce

\* The storage a proof proves: the lane's message keys and its outbound lane state
ProvedStorages ==
    { [k \in {MessageKey(LaneId, n) : n \in Nonces} \cup {OutboundLaneDataKey(LaneId)} |->
         IF k = OutboundLaneDataKey(LaneId) THEN ls ELSE ms[k.nonce]] :
      ms \in [Nonces -> MessageReads], ls \in LaneStateReads }

\* FromBridgedChainMessagesProof, with the storage its storage_proof proves
MessagesProofs ==
    [lane : {LaneId}, nonces_start : 0..MaxNonce, nonces_end : 0..MaxNonce]

\* What build_parser returns
BuiltParsers == {Err("Custom")} \cup { Ok([storage |-> st]) : st \in ProvedStorages }

\* The state roots the finality pallets may hold, and the hash a proof names
StateRoots == {"root_a", "root_b"}
BridgedHeaderHash == "hash"
BridgedParachain == "para"

\* ImportedHeaders of the GRANDPA pallet: the header is unknown, or imported with
\* one of the roots
ImportedHeaders ==
    {<<>>} \cup { [h \in {BridgedHeaderHash} |-> [state_root |-> r]] : r \in StateRoots }

\* ImportedParaHeads of the parachains pallet: the head is unknown, does not decode
\* to a header, or is a header with one of the roots
ImportedParaHeads ==
    {<<>>}
    \cup { [k \in {<<BridgedParachain, BridgedHeaderHash>>} |-> head] :
             head \in {<<5>>} \cup { <<5, r>> : r \in StateRoots } }

\* The values the inbound lane state key may hold
RawInboundLaneStates ==
    {EncodeInboundLaneData([relayers |-> <<[relayer |-> 4,
                                            messages |-> [begin |-> 1, end |-> 2]]>>,
                            last_confirmed_nonce |-> 0]),
     <<1, 4>>}
InboundLaneStateReads == {ReadFailed, ReadAbsent} \cup {ReadValue(b) : b \in RawInboundLaneStates}

\* The storage a proof anchored to a root proves: messages 1 and 2, the outbound and
\* the inbound lane state
AnchoredStorages ==
    { [k \in {MessageKey(LaneId, 1), MessageKey(LaneId, 2), OutboundLaneDataKey(LaneId),
              InboundLaneDataKey(LaneId)} |->
         IF k = OutboundLaneDataKey(LaneId) THEN ls
         ELSE IF k = InboundLaneDataKey(LaneId) THEN is
         ELSE ms[k.nonce]] :
      ms \in [1..2 -> {ReadAbsent,
                       ReadValue(EncodeMessageData([payload |-> <<7>>, fee |-> 5]))}],
      ls \in {ReadAbsent,
              ReadValue(EncodeOutboundLaneData([oldest_unpruned_nonce |-> 1,
                                                latest_received_nonce |-> 1,
                                                latest_generated_nonce |-> 2]))},
      is \in InboundLaneStateReads }

\* FromBridgedChainMessagesProof: storage_proof is given by the root it is a proof
\* under and the storage it proves
AnchoredMessagesProofs ==
    [bridged_header_hash : {BridgedHeaderHash},
     storage_proof : [root : StateRoots, storage : AnchoredStorages],
     lane : {LaneId}, nonces_start : {1}, nonces_end : 0..2]

\* FromBridgedChainMessagesDeliveryProof: the same proof without the nonces
DeliveryProofOf(proof) ==
    [bridged_header_hash |-> proof.bridged_header_hash,
     storage_proof |-> proof.storage_proof, lane |-> proof.lane]

\* The fee market's configuration: the slash ratio, the reward ratios (in percent),
\* the slash protection, the existential deposit and the current block
Configs ==
    { [assigned_relayer_slash_ratio |-> 20,
       assigned_relayers_reward_ratio |-> a,
       message_relayers_reward_ratio |-> mc[1],
       confirm_relayers_reward_ratio |-> mc[2],
       collateral_slash_protect |-> sp,
       existential_deposit |-> 1,
       block_number |-> 7] :
      a \in {50, 60}, mc \in {<<80, 20>>, <<50, 50>>}, sp \in {None, Some(50)} }
    \cup
    { [assigned_relayer_slash_ratio |-> 20,
       assigned_relayers_reward_ratio |-> 60,
       message_relayers_reward_ratio |-> 80,
       confirm_relayers_reward_ratio |-> 20,
       collateral_slash_protect |-> None,
       existential_deposit |-> 10,
       block_number |-> 7] }

\* Order::new: sent at block 0, three assigned relayers in the order of their fees,
\* one slot of 5 blocks each, 100 of collateral locked for the order
MakeOrder(lane, nonce, fees, confirm_time) ==
    [lane |-> lane, message |-> nonce, sent_time |-> 0, confirm_time |-> confirm_time,
     locked_collateral |-> 100,
     assigned_relayers |->
        [i \in 1..3 |-> [id |-> i, fee |-> fees[i],
                         valid_range |-> [start |-> 5 * (i - 1), end |-> 5 * i]]]]

\* A second lane of the fee market
OtherLaneId == "lan2"
MarketLanes == {LaneId, OtherLaneId}

\* The orders of the lane: nonce 1, confirmed in any slot, after the last slot, or
\* not yet marked confirmed; and possibly nonce 2
LaneOrders ==
    { [n \in 1..1 |-> MakeOrder(LaneId, 1, <<40, 60, 100>>, c1)] :
        c1 \in {None, Some(2), Some(7), Some(12), Some(15), Some(70)} }
    \cup
    { [n \in 1..2 |-> IF n = 1 THEN MakeOrder(LaneId, 1, <<40, 60, 100>>, c1)
                      ELSE MakeOrder(LaneId, 2, <<15, 25, 35>>, c2)] :
        c1 \in {None, Some(2), Some(7), Some(12), Some(15), Some(70)},
        c2 \in {Some(2), Some(12), Some(70)} }

\* Orders, keyed by (lane id, message nonce): the orders of the lane, and on the
\* other lane one order of nonce 2, confirmed after its last slot
OrderBooks ==
    { [k \in { <<LaneId, n>> : n \in DOMAIN b } \cup { <<OtherLaneId, 2>> } |->
          IF k[1] = LaneId THEN b[k[2]]
          ELSE MakeOrder(OtherLaneId, 2, <<15, 25, 35>>, Some(70))] :
      b \in LaneOrders }

AssignedRelayers == 1..3
Collaterals == { [r \in AssignedRelayers |-> 100],
                 [r \in AssignedRelayers |-> IF r = 2 THEN 300 ELSE r * 100] }

MarketAccounts == AssignedRelayers \cup {4, 5, FundAccount, TreasuryAccount}

RECURSIVE SumFees(_, _)
SumFees(book, keys) ==
    IF keys = {} THEN 0
    ELSE LET k == CHOOSE k \in keys : TRUE
         IN  OrderFee(book[k]) + SumFees(book, keys \ {k})

\* Balances: each relayer holds its collateral and maybe more; the fund holds the
\* fees of the orders and maybe the existential deposit it should be pre-funded with;
\* account 5 is a new account
Balances(book, coll, spare, prefund) ==
    [a \in MarketAccounts |->
        IF a \in AssignedRelayers THEN coll[a] + spare
        ELSE IF a = FundAccount THEN SumFees(book, DOMAIN book) + prefund
        ELSE IF a = 5 THEN 0
        ELSE 10]

\* The unrewarded relayers of a delivery confirmation and the confirmed range
Deliveries ==
    { <<[relayer |-> 4, messages |-> [begin |-> 1, end |-> 2]]>>,
      <<[relayer |-> 4, messages |-> [begin |-> 1, end |-> 1]],
        [relayer |-> 1, messages |-> [begin |-> 2, end |-> 2]]>> }
ReceivedRanges == { [start |-> 1, end |-> 2], [start |-> 1, end |-> 1],
                    [start |-> 2, end |-> 2] }

(***************************************************************************)
(* The state machine.                                                      *)
(***************************************************************************)
NoCall == [called |-> FALSE]

\* A fee market without orders
IdleMarket ==
    /\ cfg = CHOOSE c \in Configs : TRUE
    /\ orders = <<>>
    /\ collateral = [r \in AssignedRelayers |-> 100]
    /\ balance = Balances(<<>>, [r \in AssignedRelayers |-> 100], 0, 1)
    /\ rw = NoCall

Init ==
    /\ events = <<>>
    /\ dispatched = 0
    /\ last = NoCall
    /\ executed = <<>>
    /\ vmo = NoCall
    /\ pf = NoCall
    /\ ap = NoCall
    /\ cq = NoCall
    /\ ln = NoCall
    /\ IdleMarket

\* The proof verifier is handed a proof, a declared count and a parser
InitProof ==
    /\ events = <<>>
    /\ dispatched = 0
    /\ last = NoCall
    /\ executed = <<>>
    /\ vmo = NoCall
    /\ ap = NoCall
    /\ cq = NoCall
    /\ ln = NoCall
    /\ pf \in [called : {FALSE}, proof : MessagesProofs,
               messages_count : 0..(MaxNonce + 1), built : BuiltParsers]
    /\ IdleMarket

\* The fee market holds orders of delivered messages; a delivery confirmation is
\* about to be rewarded
InitMarket ==
    /\ events = <<>>
    /\ dispatched = 0
    /\ last = NoCall
    /\ executed = <<>>
    /\ vmo = NoCall
    /\ pf = NoCall
    /\ ap = NoCall
    /\ cq = NoCall
    /\ ln = NoCall
    /\ cfg \in Configs
    /\ orders \in OrderBooks
    /\ collateral \in Collaterals
    /\ \E spare \in {0, 500}, prefund \in {0, 1} :
          balance = Balances(orders, collateral, spare, prefund)
    /\ rw \in [called : {FALSE}, lane_id : MarketLanes, messages_relayers : Deliveries,
               confirmation_relayer : {4, 5}, received_range : ReceivedRanges]

\* One call of Pallet::dispatch for the next message of the lane
DispatchMessage ==
    /\ dispatched < MaxDispatches
    /\ \E message \in DeliveredMessages, relayer_account \in {1} :
        \E payOk \in PayOutcomes(message) :
          LET id == [lane |-> LaneId, nonce |-> dispatched + 1]
              out == Dispatch(SOURCE_CHAIN_ID, TARGET_CHAIN_ID, relayer_account, id,
                              message, payOk)
          IN  /\ events' = events \o out.events
              /\ dispatched' = dispatched + 1
              /\ executed' = executed \o out.executions
              /\ last' = [called |-> TRUE, id |-> id, message |-> message, out |-> out]
    /\ UNCHANGED <<vmo, pf, ap, cq, ln, marketVars>>

\* One call of verify_message_origin on the sending side
VerifyMessageOrigin ==
    /\ \E sender_origin \in SenderOrigins, message \in SentMessages :
          vmo' = [called |-> TRUE, sender_origin |-> sender_origin, message |-> message,
                  result |-> verify_message_origin(sender_origin, message)]
    /\ UNCHANGED <<dispatchVars, pf, ap, cq, ln, marketVars>>

\* One call of verify_messages_proof_with_parser
VerifyMessagesProof ==
    /\ ~pf.called
    /\ pf' = [called |-> TRUE, proof |-> pf.proof, messages_count |-> pf.messages_count,
              built |-> pf.built,
              result |-> verify_messages_proof_with_parser(pf.proof, pf.messages_count,
                                                           pf.built)]
    /\ UNCHANGED <<dispatchVars, vmo, ap, cq, ln, marketVars>>

\* One call of pay_relayers_rewards for a confirmed delivery
PayRelayersRewards ==
    /\ ~rw.called
    /\ LET res == pay_relayers_rewards(rw.lane_id, rw.messages_relayers,
                                       rw.confirmation_relayer, rw.received_range,
                                       FundAccount)
       IN  /\ collateral' = res.st.collateral
           /\ balance' = res.st.balance
           /\ rw' = [called |-> TRUE, lane_id |-> rw.lane_id,
                     messages_relayers |-> rw.messages_relayers,
                     confirmation_relayer |-> rw.confirmation_relayer,
                     received_range |-> rw.received_range,
                     collateral_before |-> collateral, balance_before |-> balance,
                     items |-> res.items, reports |-> res.st.reports, book |-> res.book,
                     paid |-> res.paid]
    /\ UNCHANGED <<dispatchVars, vmo, pf, ap, cq, ln, cfg, orders>>

\* A proof, and the finality pallets it is verified against
InitAnchor ==
    /\ events = <<>>
    /\ dispatched = 0
    /\ last = NoCall
    /\ executed = <<>>
    /\ vmo = NoCall
    /\ pf = NoCall
    /\ cq = NoCall
    /\ ln = NoCall
    /\ IdleMarket
    /\ ap \in [imported_headers : ImportedHeaders, imported_para_heads : ImportedParaHeads,
               proof : AnchoredMessagesProofs, messages_count : 0..2,
               direct : {None}, parachain : {None},
               delivery_direct : {None}, delivery_parachain : {None}]

\* One call of verify_messages_proof
VerifyMessagesProofDirect ==
    /\ ap.direct = None
    /\ ap' = [ap EXCEPT !.direct =
                 Some(verify_messages_proof(ap.imported_headers, ap.proof,
                                            ap.messages_count))]
    /\ UNCHANGED <<dispatchVars, vmo, pf, cq, ln, marketVars>>

\* One call of verify_messages_proof_from_parachain
VerifyMessagesProofFromParachain ==
    /\ ap.parachain = None
    /\ ap' = [ap EXCEPT !.parachain =
                 Some(verify_messages_proof_from_parachain(ap.imported_para_heads,
                          BridgedParachain, ap.proof, ap.messages_count))]
    /\ UNCHANGED <<dispatchVars, vmo, pf, cq, ln, marketVars>>

\* One call of verify_messages_delivery_proof
VerifyMessagesDeliveryProof ==
    /\ ap.delivery_direct = None
    /\ ap' = [ap EXCEPT !.delivery_direct =
                 Some(verify_messages_delivery_proof(ap.imported_headers,
                                                     DeliveryProofOf(ap.proof)))]
    /\ UNCHANGED <<dispatchVars, vmo, pf, cq, ln, marketVars>>

\* One call of verify_messages_delivery_proof_from_parachain
VerifyMessagesDeliveryProofFromParachain ==
    /\ ap.delivery_parachain = None
    /\ ap' = [ap EXCEPT !.delivery_parachain =
                 Some(verify_messages_delivery_proof_from_parachain(
                          ap.imported_para_heads, BridgedParachain,
                          DeliveryProofOf(ap.proof)))]
    /\ UNCHANGED <<dispatchVars, vmo, pf, cq, ln, marketVars>>

NextAnchor ==
    \/ VerifyMessagesProofDirect
    \/ VerifyMessagesProofFromParachain
    \/ VerifyMessagesDeliveryProof
    \/ VerifyMessagesDeliveryProofFromParachain
SpecAnchor == InitAnchor /\ [][NextAnchor]_vars

\* dispatch has come to the execution of a call: the declared weight passed the
\* weight check
InitExecute ==
    /\ events = <<>>
    /\ dispatched = 0
    /\ executed = <<>>
    /\ vmo = NoCall
    /\ pf = NoCall
    /\ ap = NoCall
    /\ cq = NoCall
    /\ ln = NoCall
    /\ IdleMarket
    /\ last \in { x \in [called : {FALSE}, weight : Weights, info : DispatchInfos,
                         result : CallResults] :
                  ~WeightTooLow(x, x.info.weight) }

\* The execution of the call and the weights dispatch derives from its result
ExecuteCall ==
    /\ ~last.called
    /\ LET actual_call_weight == extract_actual_weight(last.result, last.info)
       IN  last' = [called |-> TRUE, weight |-> last.weight, info |-> last.info,
                    result |-> last.result,
                    actual_call_weight |-> actual_call_weight,
                    unspent_weight |-> WeightSaturatingSub(last.weight, actual_call_weight)]
    /\ UNCHANGED <<events, dispatched, executed, vmo, pf, ap, cq, ln, marketVars>>

NextExecute == ExecuteCall
SpecExecute == InitExecute /\ [][NextExecute]_vars

\* The transaction pool asks about an unsigned transaction of the clique pallet
InitPool ==
    /\ events = <<>>
    /\ dispatched = 0
    /\ last = NoCall
    /\ executed = <<>>
    /\ vmo = NoCall
    /\ pf = NoCall
    /\ ap = NoCall
    /\ ln = NoCall
    /\ IdleMarket
    /\ cq \in [called : {FALSE}, storage : CliqueStorages, call : UnsignedCalls]

\* One call of validate_unsigned
ValidateUnsigned ==
    /\ ~cq.called
    /\ cq' = [called |-> TRUE, storage |-> cq.storage, call |-> cq.call,
              result |-> validate_unsigned(cq.storage, cq.call)]
    /\ UNCHANGED <<dispatchVars, vmo, pf, ap, ln, marketVars>>

NextPool == ValidateUnsigned
SpecPool == InitPool /\ [][NextPool]_vars

\* The clique pallet holds headers to prune
InitPrune ==
    /\ events = <<>>
    /\ dispatched = 0
    /\ last = NoCall
    /\ executed = <<>>
    /\ vmo = NoCall
    /\ pf = NoCall
    /\ ap = NoCall
    /\ ln = NoCall
    /\ IdleMarket
    /\ cq \in [called : {FALSE}, calls : {0}, storage : PruningStorages,
               config : CliqueVariantConfigurations]

\* One call of prune_blocks
PruneBlocks ==
    /\ cq.calls < MaxPrunings
    /\ \E max_blocks_to_prune \in PruneBudgets, prune_end \in PruneEnds :
          cq' = [called |-> TRUE, calls |-> cq.calls + 1, op |-> "prune_blocks",
                 config |-> cq.config,
                 max_blocks_to_prune |-> max_blocks_to_prune, prune_end |-> prune_end,
                 before |-> cq.storage,
                 storage |-> prune_blocks(cq.storage, max_blocks_to_prune,
                                          cq.storage.finalized.number, prune_end,
                                          cq.config)]
    /\ UNCHANGED <<dispatchVars, vmo, pf, ap, ln, marketVars>>

\* One call of finalize_and_prune_headers
FinalizeAndPruneHeaders ==
    /\ cq.calls < MaxPrunings
    /\ \E finalized \in {None, Some([number |-> 1, hash |-> <<1, 2>>])},
          prune_end \in PruneEnds :
          cq' = [called |-> TRUE, calls |-> cq.calls + 1,
                 op |-> "finalize_and_prune_headers", config |-> cq.config,
                 max_blocks_to_prune |-> MAX_BLOCKS_TO_PRUNE_IN_SINGLE_IMPORT,
                 prune_end |-> prune_end,
                 before |-> cq.storage,
                 storage |-> finalize_and_prune_headers(cq.storage, finalized, prune_end,
                                                        cq.config)]
    /\ UNCHANGED <<dispatchVars, vmo, pf, ap, ln, marketVars>>

NextPrune == PruneBlocks \/ FinalizeAndPruneHeaders
SpecPrune == InitPrune /\ [][NextPrune]_vars

\* The clique pallet after its genesis
InitImport ==
    /\ events = <<>>
    /\ dispatched = 0
    /\ last = NoCall
    /\ executed = <<>>
    /\ vmo = NoCall
    /\ pf = NoCall
    /\ ap = NoCall
    /\ ln = NoCall
    /\ IdleMarket
    /\ \E config \in CliqueVariantConfigurations :
          cq = [called |-> FALSE, calls |-> 0, config |-> config,
                storage |-> initialize_storage(InitialHeader), imported |-> <<>>]

\* One import of a header
ImportHeader ==
    /\ cq.calls < MaxImports
    /\ \E header \in ImportableHeaders, verified \in BOOLEAN, prune_end \in PruneEnds :
        \E finalized \in Finalizable(cq.storage, header) :
          LET res == import_header(cq.storage, header, verified, finalized, prune_end,
                                   cq.config)
          IN  cq' = [called |-> TRUE, calls |-> cq.calls + 1, op |-> "import_header",
                     config |-> cq.config,
                     storage |-> res.storage,
                     imported |-> IF IsOk(res.result) THEN Append(cq.imported, header.hash)
                                  ELSE cq.imported,
                     before |-> cq.storage, header |-> header, verified |-> verified,
                     result |-> res.result]
    /\ UNCHANGED <<dispatchVars, vmo, pf, ap, ln, marketVars>>

\* One call of prune_blocks on the storage of the imports, with a budget of its own
PruneImportedBlocks ==
    /\ cq.calls < MaxImports
    /\ \E max_blocks_to_prune \in {1, 2}, prune_end \in PruneEnds :
          cq' = [called |-> TRUE, calls |-> cq.calls + 1, op |-> "prune_blocks",
                 config |-> cq.config,
                 storage |-> prune_blocks(cq.storage, max_blocks_to_prune,
                                          cq.storage.finalized.number, prune_end,
                                          cq.config),
                 imported |-> cq.imported, before |-> cq.storage,
                 max_blocks_to_prune |-> max_blocks_to_prune]
    /\ UNCHANGED <<dispatchVars, vmo, pf, ap, ln, marketVars>>

NextImport == ImportHeader \/ PruneImportedBlocks
SpecImport == InitImport /\ [][NextImport]_vars

\* The clique pallet holds a chain of headers, some of them finalized
InitTx ==
    /\ events = <<>>
    /\ dispatched = 0
    /\ last = NoCall
    /\ executed = <<>>
    /\ vmo = NoCall
    /\ pf = NoCall
    /\ ap = NoCall
    /\ ln = NoCall
    /\ IdleMarket
    /\ cq \in [called : {FALSE}, storage : TxStorages]

\* One call of verify_transaction_finalized
VerifyTransactionFinalized ==
    /\ ~cq.called
    /\ \E block \in TxBlocks, tx_index \in TxIndexes, proof \in TxProofs :
          cq' = [called |-> TRUE, storage |-> cq.storage, block |-> block,
                 tx_index |-> tx_index, proof |-> proof,
                 result |-> verify_transaction_finalized(cq.storage, block, tx_index, proof)]
    /\ UNCHANGED <<dispatchVars, vmo, pf, ap, ln, marketVars>>

NextTx == VerifyTransactionFinalized
SpecTx == InitTx /\ [][NextTx]_vars

\* An empty outbound lane, and a fee market that has or has not a fee to offer
InitLane ==
    /\ events = <<>>
    /\ dispatched = 0
    /\ last = NoCall
    /\ executed = <<>>
    /\ vmo = NoCall
    /\ pf = NoCall
    /\ ap = NoCall
    /\ cq = NoCall
    /\ IdleMarket
    /\ ln \in [called : {FALSE}, market_fee : MarketFees,
               data : {[oldest_unpruned_nonce |-> 1, latest_received_nonce |-> 0,
                        latest_generated_nonce |-> 0]}]

\* One send_message on the outbound lane
SendMessage ==
    /\ ln.data.latest_generated_nonce < MaxSent
    /\ \E submitter \in LaneSubmitters, fee \in LaneFees, lane \in Lanes,
          payload \in LanePayloads :
          LET sent == send_message(ln.data, submitter, fee, lane, payload, ln.market_fee)
          IN  ln' = [called |-> TRUE, market_fee |-> ln.market_fee, data |-> sent.data,
                     op |-> "send_message", submitter |-> submitter, fee |-> fee,
                     lane |-> lane, payload |-> payload, data_before |-> ln.data,
                     verdict |-> sent.verdict]
    /\ UNCHANGED <<dispatchVars, vmo, pf, ap, cq, marketVars>>

\* One confirmation of delivery on the outbound lane
ConfirmDelivery ==
    /\ \E nonce \in 1..MaxSent :
          /\ nonce > ln.data.latest_received_nonce
          /\ nonce <= ln.data.latest_generated_nonce
          /\ ln' = [called |-> TRUE, market_fee |-> ln.market_fee,
                    data |-> confirm_delivery(ln.data, nonce),
                    op |-> "confirm_delivery", data_before |-> ln.data]
    /\ UNCHANGED <<dispatchVars, vmo, pf, ap, cq, marketVars>>

NextLane == SendMessage \/ ConfirmDelivery
SpecLane == InitLane /\ [][NextLane]_vars

\* An inbound lane that has received nothing
InitDelivery ==
    /\ events = <<>>
    /\ dispatched = 0
    /\ last = NoCall
    /\ executed = <<>>
    /\ vmo = NoCall
    /\ pf = NoCall
    /\ ap = NoCall
    /\ cq = NoCall
    /\ IdleMarket
    /\ ln \in [called : {FALSE}, deliveries : {0}, last_delivered_nonce : {0},
               rejected : BOOLEAN]

\* One delivery transaction: a relayer submits the proved messages of a nonce range,
\* new or already delivered
ReceiveMessagesProof ==
    /\ ln.deliveries < MaxDeliveries
    /\ \E start \in Nonces, end \in Nonces :
          /\ start <= end
          /\ LET lane == receive_messages([last_delivered_nonce |-> ln.last_delivered_nonce,
                                           results |-> <<>>, out |-> <<>>],
                                          ProvedMessages(ln.rejected), start, end)
             IN  /\ ln' = [called |-> TRUE, deliveries |-> ln.deliveries + 1,
                           last_delivered_nonce |-> lane.last_delivered_nonce,
                           rejected |-> ln.rejected,
                           start |-> start, end |-> end,
                           delivered_before |-> ln.last_delivered_nonce,
                           results |-> lane.results]
                 /\ events' = events \o OutcomesEvents(lane.out)
                 /\ executed' = executed \o OutcomesExecutions(lane.out)
                 /\ dispatched' = dispatched + Len(lane.out)
    /\ UNCHANGED <<last, vmo, pf, ap, cq, marketVars>>

NextDelivery == ReceiveMessagesProof
SpecDelivery == InitDelivery /\ [][NextDelivery]_vars

NextDispatch == DispatchMessage
SpecDispatch == Init /\ [][NextDispatch]_vars

NextProof == VerifyMessagesProof
SpecProof == InitProof /\ [][NextProof]_vars

\* A message is about to be sent: its submitter pays the fee
FeeSubmitters == {RawRoot, RawNone, RawSigned(1), RawSigned(4), RawSigned(5)}
MessageFees == {0, 5, 10, 200}
InitFee ==
    /\ events = <<>>
    /\ dispatched = 0
    /\ last = NoCall
    /\ executed = <<>>
    /\ vmo = NoCall
    /\ pf = NoCall
    /\ ap = NoCall
    /\ cq = NoCall
    /\ ln = NoCall
    /\ cfg \in Configs
    /\ orders = <<>>
    /\ collateral = [r \in AssignedRelayers |-> 100]
    /\ \E prefund \in {0, 1, 10} :
          balance = Balances(<<>>, [r \in AssignedRelayers |-> 100], 0, prefund)
    /\ rw \in [called : {FALSE}, submitter : FeeSubmitters, fee : MessageFees]

\* One call of pay_delivery_and_dispatch_fee
PayDeliveryAndDispatchFee ==
    /\ ~rw.called
    /\ LET res == pay_delivery_and_dispatch_fee(balance, rw.submitter, rw.fee, FundAccount)
       IN  /\ balance' = res.balance
           /\ rw' = [called |-> TRUE, submitter |-> rw.submitter, fee |-> rw.fee,
                     balance_before |-> balance, result |-> res.result]
    /\ UNCHANGED <<dispatchVars, vmo, pf, ap, cq, ln, cfg, orders, collateral>>

NextFee == PayDeliveryAndDispatchFee
SpecFee == InitFee /\ [][NextFee]_vars

NextMarket == PayRelayersRewards
SpecMarket == InitMarket /\ [][NextMarket]_vars

NextOrigin == VerifyMessageOrigin
SpecOrigin == Init /\ [][NextOrigin]_vars

(***************************************************************************)
(* Properties of Pallet::dispatch                                          *)
(***************************************************************************)
EventKinds ==
    {"MessageRejected", "MessageVersionSpecMismatch", "MessageCallDecodeFailed",
     "MessageSignatureMismatch", "MessageCallValidateFailed", "MessageWeightMismatch",
     "MessageDispatchPaymentFailed", "MessageDispatched"}

LastEvent == events[Len(events)]

\* C1: every call of dispatch deposits exactly one event, and that event carries the
\* id of the dispatched message: after n calls there are n events, the i-th for the
\* i-th message, whatever path each call took.
C1_ExactlyOneEventPerDispatch ==
    /\ Len(events) = dispatched
    /\ \A i \in 1..Len(events) :
          /\ events[i].id = [lane |-> LaneId, nonce |-> i]
          /\ events[i].chain = SOURCE_CHAIN_ID
          /\ events[i].kind \in EventKinds
    /\ last.called =>
          /\ Len(last.out.events) = 1
          /\ last.out.events[1].id = last.id
          /\ LastEvent = last.out.events[1]

\* C1 witness: a dispatch that failed to pay its fee followed by a dispatch that
\* rejected a message with an undecodable call.
C1_Witness ==
    /\ dispatched = 2
    /\ events[1].kind = "MessageDispatchPaymentFailed"
    /\ events[2].kind = "MessageCallDecodeFailed"

\* C2: a message whose spec_version differs from the runtime's yields
\* MessageVersionSpecMismatch(expected, got), dispatch_result = false and
\* unspent_weight = the declared weight; the call is not decoded, the fee callback is
\* not invoked and nothing is executed.
C2_SpecVersionMismatchRejects ==
    (last.called /\ IsOk(last.message)
        /\ last.message.ok.spec_version # TEST_SPEC_VERSION) =>
       /\ LastEvent.kind = "MessageVersionSpecMismatch"
       /\ LastEvent.expected = TEST_SPEC_VERSION
       /\ LastEvent.got = last.message.ok.spec_version
       /\ last.out.result = DispatchResult(FALSE, last.message.ok.weight, FALSE)
       /\ ~last.out.decoded
       /\ last.out.fee_calls = <<>>
       /\ last.out.executions = <<>>

\* C2 witness: a message of another spec version that would otherwise have been
\* paid for at the target chain and executed.
C2_Witness ==
    /\ last.called /\ IsOk(last.message)
    /\ last.message.ok.spec_version = 99
    /\ last.message.ok.call = EncodeCall(Remark)
    /\ last.message.ok.origin = SourceRoot
    /\ last.message.ok.weight = W(3, 1)
    /\ last.message.ok.dispatch_fee_payment = "AtTargetChain"
    /\ LastEvent.kind = "MessageVersionSpecMismatch"

\* The message passes every check that precedes the weight check
ReachesWeightCheck(message) ==
    /\ IsOk(message)
    /\ message.ok.spec_version = TEST_SPEC_VERSION
    /\ IsOk(DecodeCall(message.ok.call))
    /\ IsOk(OriginDerivedAccount(SOURCE_CHAIN_ID, TARGET_CHAIN_ID, message.ok,
                                 DecodeCall(message.ok.call).ok))
    /\ LET call == DecodeCall(message.ok.call).ok
           account == OriginDerivedAccount(SOURCE_CHAIN_ID, TARGET_CHAIN_ID,
                                           message.ok, call).ok
       IN  IsOk(CallValidate(1, IntoDispatchOrigin(account, call), call))

\* C3: a message that reaches the weight check with a declared weight below the
\* call's pre-dispatch weight (the comparison is on ref_time) yields
\* MessageWeightMismatch; the call is not executed, the fee callback is not invoked,
\* dispatch_result = false and unspent_weight = the declared weight.
C3_LowWeightRejects ==
    (last.called /\ ReachesWeightCheck(last.message)
        /\ last.message.ok.weight.ref_time
             < GetDispatchInfo(DecodeCall(last.message.ok.call).ok).weight.ref_time) =>
       /\ LastEvent.kind = "MessageWeightMismatch"
       /\ LastEvent.expected = GetDispatchInfo(DecodeCall(last.message.ok.call).ok).weight
       /\ LastEvent.got = last.message.ok.weight
       /\ last.out.executions = <<>>
       /\ last.out.fee_calls = <<>>
       /\ last.out.result = DispatchResult(FALSE, last.message.ok.weight, FALSE)

\* C3 witness: set_heap_pages (weight 2) declared with weight 1, fee payable at the
\* target chain, rejected for its weight.
C3_Witness ==
    /\ last.called /\ ReachesWeightCheck(last.message)
    /\ last.message.ok.call = EncodeCall(SetHeapPages)
    /\ last.message.ok.weight = W(1, 0)
    /\ last.message.ok.dispatch_fee_payment = "AtTargetChain"
    /\ LastEvent.kind = "MessageWeightMismatch"

\* The defects a delivered payload may have, each judged on its own.  The last three
\* are about the decoded call, so they are defects of payloads whose call decodes.
VersionDefect(m) == m.spec_version # TEST_SPEC_VERSION
DecodeDefect(m) == IsErr(DecodeCall(m.call))
SignatureDefect(m) ==
    /\ ~DecodeDefect(m)
    /\ IsErr(OriginDerivedAccount(SOURCE_CHAIN_ID, TARGET_CHAIN_ID, m, DecodeCall(m.call).ok))
ValidateDefect(m) ==
    /\ ~DecodeDefect(m)
    /\ IsErr(CallValidate(1, [kind |-> "Signed"], DecodeCall(m.call).ok))
WeightDefect(m) ==
    /\ ~DecodeDefect(m)
    /\ m.weight.ref_time < GetDispatchInfo(DecodeCall(m.call).ok).weight.ref_time

\* The defects in the order dispatch looks for them, with the event of each
DefectOrder ==
    <<"MessageVersionSpecMismatch", "MessageCallDecodeFailed", "MessageSignatureMismatch",
      "MessageCallValidateFailed", "MessageWeightMismatch">>
HasDefect(m, i) ==
    CASE i = 1 -> VersionDefect(m)
      [] i = 2 -> DecodeDefect(m)
      [] i = 3 -> SignatureDefect(m)
      [] i = 4 -> ValidateDefect(m)
      [] i = 5 -> WeightDefect(m)

\* C17: dispatch checks the spec version, then the call's decoding, then the origin's
\* signature, then the call validator, then the weight, then pays the fee, then
\* executes.  The event is that of the first check that fails, whatever later checks
\* would have failed too, and no later step is performed: no decoding after a version
\* mismatch, no fee payment after any failed check, no execution unless every check
\* and the fee payment passed.
C17_CheckOrder ==
    (last.called /\ IsOk(last.message)) =>
       LET m == last.message.ok
           kind == last.out.events[1].kind
       IN  /\ \A i \in 1..5 :
                 (HasDefect(m, i) /\ \A j \in 1..(i - 1) : ~HasDefect(m, j)) =>
                    /\ kind = DefectOrder[i]
                    /\ last.out.decoded = (i > 1)
                    /\ last.out.fee_calls = <<>>
                    /\ last.out.executions = <<>>
                    /\ ~last.out.result.dispatch_result
           /\ (\A i \in 1..5 : ~HasDefect(m, i)) =>
                 /\ kind \in {"MessageDispatchPaymentFailed", "MessageDispatched"}
                 /\ kind = "MessageDispatchPaymentFailed" =>
                       /\ Len(last.out.fee_calls) = 1 /\ ~last.out.fee_calls[1].ok
                       /\ last.out.executions = <<>>
                 /\ kind = "MessageDispatched" =>
                       /\ Len(last.out.executions) = 1
                       /\ \A k \in 1..Len(last.out.fee_calls) : last.out.fee_calls[k].ok

\* C17 witness: fill_block, which the call validator rejects, declared with a weight
\* below its own and payable at the target chain: the validator's rejection is the
\* one reported.
C17_Witness ==
    /\ last.called /\ IsOk(last.message)
    /\ ~VersionDefect(last.message.ok) /\ ~SignatureDefect(last.message.ok)
    /\ ValidateDefect(last.message.ok) /\ WeightDefect(last.message.ok)
    /\ last.message.ok.dispatch_fee_payment = "AtTargetChain"
    /\ LastEvent.kind = "MessageCallValidateFailed"

\* The PostDispatchInfo of an executed call
PostInfoOf(result) == IF IsOk(result) THEN result.ok ELSE result.err.post_info

\* unspent = declared - consumed floored at 0, in each component of the weight
UnspentIsDeclaredLessConsumed ==
    /\ last.unspent_weight.ref_time
         = Max(last.weight.ref_time - last.actual_call_weight.ref_time, 0)
    /\ last.unspent_weight.proof_size
         = Max(last.weight.proof_size - last.actual_call_weight.proof_size, 0)
    /\ last.unspent_weight.ref_time <= last.weight.ref_time
    /\ last.unspent_weight.proof_size <= last.weight.proof_size

\* C18 (as amended): when the call is executed and pays its fee, the consumed weight
\* is the post-execution cost the call reports, capped by the call's pre-dispatch
\* weight, and the call's pre-dispatch weight if it reports none; a call that pays no
\* fee consumes nothing.  unspent_weight = declared - consumed floored at 0 in each
\* component, so never negative and never more than the declared weight.
C18_ConsumedWeight ==
    last.called =>
       LET post_info == PostInfoOf(last.result)
       IN  /\ (post_info.pays_fee = "Yes" /\ IsSome(post_info.actual_weight)) =>
                 last.actual_call_weight
                   = WeightMin(post_info.actual_weight.some, last.info.weight)
           /\ (post_info.pays_fee = "Yes" /\ ~IsSome(post_info.actual_weight)) =>
                 last.actual_call_weight = last.info.weight
           /\ post_info.pays_fee = "No" => last.actual_call_weight = WeightZero
           /\ UnspentIsDeclaredLessConsumed

\* C18 witness: a call of pre-dispatch weight (1, 0) that reports no post-execution
\* cost, executed for a message that declared (3, 1): (2, 1) is unspent.
C18_Witness ==
    /\ last.called
    /\ last.weight = W(3, 1) /\ last.info.weight = W(1, 0)
    /\ PostInfoOf(last.result) = DefaultPostInfo
    /\ last.actual_call_weight = W(1, 0)
    /\ last.unspent_weight = W(2, 1)

\* C18 as stated: the consumed weight is the reported post-execution cost, else the
\* declared message weight.
C18_ConsumedWeightAsStated ==
    last.called =>
       LET post_info == PostInfoOf(last.result)
       IN  /\ last.actual_call_weight
                = IF IsSome(post_info.actual_weight)
                  THEN post_info.actual_weight.some ELSE last.weight
           /\ UnspentIsDeclaredLessConsumed

\* C19: pay_dispatch_fee is called at most once per dispatch, and only for a payload
\* that declares AtTargetChain and passed every earlier check, with the derived origin
\* account and the declared weight; if it fails the event is
\* MessageDispatchPaymentFailed, the call is not executed and
\* dispatch_fee_paid_during_dispatch is false; dispatch_fee_paid_during_dispatch is
\* true only if the callback was called and succeeded.
C19_FeePayment ==
    last.called =>
       LET out == last.out
       IN  /\ Len(out.fee_calls) <= 1
           /\ out.fee_calls # <<>> =>
                 /\ IsOk(last.message)
                 /\ last.message.ok.dispatch_fee_payment = "AtTargetChain"
                 /\ \A i \in 1..5 : ~HasDefect(last.message.ok, i)
                 /\ out.fee_calls[1].weight = last.message.ok.weight
                 /\ out.fee_calls[1].account
                      = OriginDerivedAccount(SOURCE_CHAIN_ID, TARGET_CHAIN_ID, last.message.ok,
                                             DecodeCall(last.message.ok.call).ok).ok
           /\ (out.fee_calls # <<>> /\ ~out.fee_calls[1].ok) =>
                 /\ LastEvent.kind = "MessageDispatchPaymentFailed"
                 /\ LastEvent.account = out.fee_calls[1].account
                 /\ LastEvent.weight = last.message.ok.weight
                 /\ out.executions = <<>>
                 /\ out.result = DispatchResult(FALSE, last.message.ok.weight, FALSE)
           /\ out.result.dispatch_fee_paid_during_dispatch =>
                 /\ Len(out.fee_calls) = 1
                 /\ out.fee_calls[1].ok

\* C19 witness: remark from the source root, payable at the target chain, whose fee
\* payment fails.
C19_Witness ==
    /\ last.called /\ IsOk(last.message)
    /\ last.message.ok.call = EncodeCall(Remark)
    /\ last.message.ok.origin = SourceRoot
    /\ Len(last.out.fee_calls) = 1 /\ ~last.out.fee_calls[1].ok
    /\ LastEvent.kind = "MessageDispatchPaymentFailed"
    /\ executed = <<>>

\* C20: a message that is Err yields MessageRejected, dispatch_result = false,
\* unspent_weight = 0 and dispatch_fee_paid_during_dispatch = false; nothing is
\* decoded, paid or executed.
C20_RejectedMessage ==
    (last.called /\ IsErr(last.message)) =>
       /\ last.out.events
            = <<[kind |-> "MessageRejected", chain |-> SOURCE_CHAIN_ID, id |-> last.id]>>
       /\ LastEvent.kind = "MessageRejected"
       /\ last.out.result = DispatchResult(FALSE, WeightZero, FALSE)
       /\ ~last.out.decoded
       /\ last.out.fee_calls = <<>>
       /\ last.out.executions = <<>>

\* C20 witness: an executed remark followed by a rejected message; the remark stays
\* the only executed call.
C20_Witness ==
    /\ dispatched = 2
    /\ last.called /\ IsErr(last.message)
    /\ events[1].kind = "MessageDispatched"
    /\ events[2].kind = "MessageRejected"
    /\ Len(executed) = 1

\* The signature of a TargetAccount origin verifies for the account of the target
\* key: with the runtime's TestSignature, it is that account's signature
OwnershipProved(m) == m.origin.signature.signer = IntoAccount(m.origin.public)

\* The ownership digest dispatch builds for a message
OwnershipDigest(m) ==
    account_ownership_digest(DecodeCall(m.call).ok, m.origin.id, m.spec_version,
                             SOURCE_CHAIN_ID, TARGET_CHAIN_ID)

\* The signature of a TargetAccount origin is the target key's signature of the
\* ownership digest of this very message
DigestSigned(m) ==
    /\ m.origin.signature.signer = IntoAccount(m.origin.public)
    /\ m.origin.signature.signed = OwnershipDigest(m)

ForeignDigestAccepted ==
    /\ last.called /\ IsOk(last.message)
    /\ ~VersionDefect(last.message.ok) /\ ~DecodeDefect(last.message.ok)
    /\ last.message.ok.origin.variant = "TargetAccount"
    /\ last.message.ok.origin.signature.signer = 2
    /\ last.message.ok.origin.signature.signed # OwnershipDigest(last.message.ok)
    /\ LastEvent.kind = "MessageDispatched"
    /\ last.out.executions # <<>>
    /\ last.out.executions[1].origin = [kind |-> "Signed", who |-> 2]

\* The call the last dispatch executed, and what it returned
LastExecution == last.out.executions[1]
LastCallResult == CallDispatch(LastExecution.call, LastExecution.origin)

\* The weight a post-dispatch report charges against the call's pre-dispatch weight
ChargedWeight(post_info, info) ==
    IF post_info.pays_fee = "No" THEN WeightZero
    ELSE IF IsSome(post_info.actual_weight)
    THEN WeightMin(post_info.actual_weight.some, info.weight)
    ELSE info.weight

\* C36: when the call is executed but returns an error, dispatch still deposits
\* MessageDispatched, carrying that error, returns dispatch_result = false, and takes
\* the unspent weight from the weight the failed call reports in its error:
\* unspent_weight = declared weight less that weight, floored at zero.
\* dispatch_result is true if and only if the call was executed and returned Ok.
C36_FailedCall ==
    last.called =>
       /\ (last.out.executions # <<>> /\ IsErr(LastCallResult)) =>
             /\ LastEvent.kind = "MessageDispatched"
             /\ LastEvent.id = last.id
             /\ LastEvent.result = Err(LastCallResult.err.error)
             /\ last.out.result.dispatch_result = FALSE
             /\ last.out.result.unspent_weight
                   = WeightSaturatingSub(last.message.ok.weight,
                        ChargedWeight(LastCallResult.err.post_info,
                                      GetDispatchInfo(LastExecution.call)))
       /\ last.out.result.dispatch_result
             <=> (last.out.executions # <<>> /\ IsOk(LastCallResult))

\* C36 witness: set_heap_pages is dispatched from a signed origin and fails with
\* BadOrigin; the event carries the error, the flag is false and the weight of the
\* call is charged
C36_Witness ==
    /\ last.called
    /\ last.out.executions # <<>>
    /\ LastExecution.call = SetHeapPages
    /\ LastEvent.kind = "MessageDispatched"
    /\ LastEvent.result = Err("BadOrigin")
    /\ last.out.result.dispatch_result = FALSE
    /\ last.message.ok.weight = W(3, 1)
    /\ last.out.result.unspent_weight = W(1, 0)

(***************************************************************************)
(* Properties of verify_message_origin                                     *)
(***************************************************************************)
\* The (sender origin, declared call origin) combinations that may send
AcceptedCombination(sender, origin) ==
    \/ origin.variant = "SourceRoot" /\ sender.kind = "Root"
    \/ origin.variant = "TargetAccount" /\ sender.kind = "Signed" /\ sender.who = origin.id
    \/ origin.variant = "SourceAccount" /\ sender.kind = "Signed" /\ sender.who = origin.id
    \/ origin.variant = "SourceAccount" /\ sender.kind = "Root"

\* C4: verify_message_origin accepts exactly the combinations SourceRoot from Root
\* (returning None), TargetAccount(id, ..) from Signed(id) (returning Some(id)) and
\* SourceAccount(id) from Signed(id) or Root (returning Some(id)); every other
\* combination is BadOrigin.
C4_OriginCombinations ==
    vmo.called =>
       /\ IsOk(vmo.result) <=> AcceptedCombination(vmo.sender_origin, vmo.message.origin)
       /\ IsOk(vmo.result) =>
             vmo.result.ok = IF vmo.message.origin.variant = "SourceRoot" THEN None
                             ELSE Some(vmo.message.origin.id)
       /\ ~IsOk(vmo.result) => vmo.result = Err("BadOrigin")

\* C4 witness: Root trying to send a TargetAccount message is refused
C4_Witness ==
    /\ vmo.called
    /\ vmo.sender_origin = RawRoot
    /\ vmo.message.origin.variant = "TargetAccount"
    /\ vmo.result = Err("BadOrigin")

(***************************************************************************)
(* Properties of verify_messages_proof_with_parser                         *)
(***************************************************************************)
ProvedStorage == pf.built.ok.storage

\* The proved storage has no readable value under the message key of the nonce
MessageAbsent(storage, nonce) ==
    \/ MessageKey(LaneId, nonce) \notin DOMAIN storage
    \/ storage[MessageKey(LaneId, nonce)] \in {ReadFailed, ReadAbsent}

\* The proved storage has a value under the message key that is no MessageData
MessageMalformed(storage, nonce) ==
    /\ ~MessageAbsent(storage, nonce)
    /\ IsErr(DecodeMessageData(storage[MessageKey(LaneId, nonce)].ok.some))

LaneStateAbsent(storage) ==
    storage[OutboundLaneDataKey(LaneId)] \in {ReadFailed, ReadAbsent}

DeclaredRange == pf.proof.nonces_start..pf.proof.nonces_end

\* C5, as claimed: for all (nonces_start, nonces_end, claimed_count) the proof is
\* rejected with MessagesCountMismatch if and only if the number of nonces of
\* nonces_start..=nonces_end (nonces_end - nonces_start + 1, and none when the range
\* is empty) differs from claimed_count.
C5_CountMismatchIff ==
    pf.called =>
       (pf.result = Err("MessagesCountMismatch")
          <=> Cardinality(DeclaredRange) # pf.messages_count)

\* C6: if some nonce of nonces_start..=nonces_end is absent from the proof or does
\* not decode, verification returns an error and no message at all: the error of the
\* first such nonce once the count check and the parser have passed.
C6_AllOrNothing ==
    (pf.called /\ IsOk(pf.built)
        /\ \E n \in DeclaredRange :
              MessageAbsent(ProvedStorage, n) \/ MessageMalformed(ProvedStorage, n)) =>
       /\ IsErr(pf.result) /\ ~IsOk(pf.result)
       /\ pf.messages_count = pf.proof.nonces_end - pf.proof.nonces_start + 1 =>
             \A n \in DeclaredRange :
                (\A k \in pf.proof.nonces_start..(n - 1) :
                    ~MessageAbsent(ProvedStorage, k) /\ ~MessageMalformed(ProvedStorage, k)) =>
                   /\ MessageAbsent(ProvedStorage, n) =>
                         pf.result = Err("MissingRequiredMessage")
                   /\ MessageMalformed(ProvedStorage, n) =>
                         pf.result = Err("FailedToDecodeMessage")

\* C6 witness: nonces 1 and 2 are proved and decode, nonce 3 is missing, the count is
\* right and the lane state is proved: the proof is rejected for the missing message.
C6_Witness ==
    /\ pf.called /\ IsOk(pf.built)
    /\ pf.proof.nonces_start = 1 /\ pf.proof.nonces_end = 3 /\ pf.messages_count = 3
    /\ ~MessageAbsent(ProvedStorage, 1) /\ ~MessageMalformed(ProvedStorage, 1)
    /\ ~MessageAbsent(ProvedStorage, 2) /\ ~MessageMalformed(ProvedStorage, 2)
    /\ MessageAbsent(ProvedStorage, 3)
    /\ ~LaneStateAbsent(ProvedStorage)
    /\ pf.result = Err("MissingRequiredMessage")

\* C7: verification fails with Empty exactly when the parser was built and the proof
\* has neither a lane state nor a message (its nonce range is empty); a proof of the
\* lane state alone is accepted and returns that state with no messages.
C7_EmptyProof ==
    pf.called =>
       /\ pf.result = Err("Empty")
            <=> (IsOk(pf.built) /\ pf.proof.nonces_start > pf.proof.nonces_end
                   /\ LaneStateAbsent(ProvedStorage))
       /\ (IsOk(pf.built) /\ pf.proof.nonces_start > pf.proof.nonces_end
             /\ ~LaneStateAbsent(ProvedStorage)
             /\ IsOk(DecodeOutboundLaneData(
                       ProvedStorage[OutboundLaneDataKey(LaneId)].ok.some))) =>
            /\ IsOk(pf.result)
            /\ DOMAIN pf.result.ok = {LaneId}
            /\ pf.result.ok[LaneId].messages = <<>>
            /\ pf.result.ok[LaneId].lane_state =
                 Some(DecodeOutboundLaneData(
                          ProvedStorage[OutboundLaneDataKey(LaneId)].ok.some).ok)

\* C7 witness: the range 1..=0 with a proved lane state is accepted with no messages
C7_Witness ==
    /\ pf.called /\ IsOk(pf.built)
    /\ pf.proof.nonces_start = 1 /\ pf.proof.nonces_end = 0 /\ pf.messages_count = 0
    /\ IsOk(pf.result)
    /\ pf.result.ok[LaneId].messages = <<>>
    /\ IsSome(pf.result.ok[LaneId].lane_state)

\* C30: on success verify_messages_proof returns exactly one lane entry, the one of the
\* proof's lane, and its messages are the nonces nonces_start..=nonces_end, one message
\* per nonce in strictly increasing order without a gap or a duplicate, each under
\* the key (lane, nonce); an empty range gives an entry without messages.
C30_ProvedRange ==
    (pf.called /\ IsOk(pf.result)) =>
       /\ DOMAIN pf.result.ok = {pf.proof.lane}
       /\ LET messages == pf.result.ok[pf.proof.lane].messages
          IN  /\ Len(messages) = Cardinality(DeclaredRange)
              /\ \A i \in 1..Len(messages) :
                    messages[i].key = MessageKey(pf.proof.lane, pf.proof.nonces_start + i - 1)
              /\ \A i \in 1..(Len(messages) - 1) :
                    messages[i + 1].key.nonce = messages[i].key.nonce + 1
              /\ {messages[i].key.nonce : i \in 1..Len(messages)} = DeclaredRange

\* C30 witness: the proof of the nonces 2..=3 is accepted with the messages 2 and 3
C30_Witness ==
    /\ pf.called /\ IsOk(pf.result)
    /\ pf.proof.nonces_start = 2 /\ pf.proof.nonces_end = 3
    /\ Len(pf.result.ok[LaneId].messages) = 2
    /\ pf.result.ok[LaneId].messages[1].key = MessageKey(LaneId, 2)
    /\ pf.result.ok[LaneId].messages[2].key = MessageKey(LaneId, 3)

\* The count is right and every message of the declared range is proved and decodes
MessagesPass ==
    /\ IsOk(pf.built)
    /\ IsOk(MessagesInTheProof(pf.proof.nonces_start, pf.proof.nonces_end, pf.messages_count))
    /\ \A n \in DeclaredRange :
          ~MessageAbsent(ProvedStorage, n) /\ ~MessageMalformed(ProvedStorage, n)

\* The proved storage has a lane state value that is no OutboundLaneData
LaneStateMalformed(storage) ==
    /\ ~LaneStateAbsent(storage)
    /\ IsErr(DecodeOutboundLaneData(storage[OutboundLaneDataKey(LaneId)].ok.some))

\* C31: the outbound lane state of a messages proof is optional.  A lane state that
\* is missing from the proof or cannot be read counts as absent: a proof that carries
\* messages is still accepted, with lane_state = None and all its messages.  A lane
\* state that is present but does not decode rejects the whole proof with
\* FailedToDecodeOutboundLaneState, and nothing else gives that error.
C31_OptionalLaneState ==
    pf.called =>
       /\ (MessagesPass /\ LaneStateAbsent(ProvedStorage) /\ DeclaredRange # {}) =>
             /\ IsOk(pf.result)
             /\ pf.result.ok[pf.proof.lane].lane_state = None
             /\ Len(pf.result.ok[pf.proof.lane].messages) = Cardinality(DeclaredRange)
       /\ (MessagesPass /\ LaneStateMalformed(ProvedStorage)) =>
             pf.result = Err("FailedToDecodeOutboundLaneState")
       /\ pf.result = Err("FailedToDecodeOutboundLaneState") =>
             (MessagesPass /\ LaneStateMalformed(ProvedStorage))

\* C31 witness: two proved messages and a lane state whose bytes do not decode; the
\* proof is rejected for the lane state
C31_Witness ==
    /\ pf.called /\ IsOk(pf.built)
    /\ pf.proof.nonces_start = 1 /\ pf.proof.nonces_end = 2 /\ pf.messages_count = 2
    /\ MessagesPass
    /\ LaneStateMalformed(ProvedStorage)
    /\ pf.result = Err("FailedToDecodeOutboundLaneState")

\* Two proved messages whose lane state cannot be read: accepted without a lane state
C31_UnreadableLaneState ==
    /\ pf.called /\ IsOk(pf.built)
    /\ pf.proof.nonces_start = 1 /\ pf.proof.nonces_end = 2
    /\ ProvedStorage[OutboundLaneDataKey(LaneId)] = ReadFailed
    /\ IsOk(pf.result)
    /\ pf.result.ok[LaneId].lane_state = None
    /\ Len(pf.result.ok[LaneId].messages) = 2

(***************************************************************************)
(* Properties of the reward and slashing ledger                            *)
(***************************************************************************)
AmountOf(option) == IF IsSome(option) THEN option.some[2] ELSE 0

\* What a reward item pays out, over its four recipients
ItemPayout(item) ==
    AmountOf(item.to_slot_relayer)
    + (IF IsSome(item.to_treasury) THEN item.to_treasury.some ELSE 0)
    + AmountOf(item.to_message_relayer) + AmountOf(item.to_confirm_relayer)

RECURSIVE SumPayouts(_, _)
SumPayouts(items, n) ==
    IF n = 0 THEN 0 ELSE ItemPayout(items[n].item) + SumPayouts(items, n - 1)

\* The order of a nonce on the lane of the confirmed delivery
OrderOf(n) == orders[<<rw.lane_id, n>>]

RECURSIVE SumOrderFees(_, _)
SumOrderFees(items, n) ==
    IF n = 0 THEN 0 ELSE OrderFee(OrderOf(items[n].nonce)) + SumOrderFees(items, n - 1)

\* The collateral moved to the fund by the slashes made for the nonces in `of`
RECURSIVE SumMoved(_, _, _)
SumMoved(reports, n, of) ==
    IF n = 0 THEN 0
    ELSE (IF reports[n].message \in of THEN reports[n].moved ELSE 0)
         + SumMoved(reports, n - 1, of)

\* The rewards the fund has paid out
RECURSIVE SumPaidUpTo(_)
SumPaidUpTo(n) ==
    IF n = 0 THEN 0
    ELSE (IF rw.paid[n].ok THEN rw.paid[n].reward ELSE 0) + SumPaidUpTo(n - 1)
SumPaid == SumPaidUpTo(Len(rw.paid))

RewardedNonces == {rw.items[i].nonce : i \in 1..Len(rw.items)}

\* The slot an order was confirmed in, None after the last slot
ConfirmedSlot(order) ==
    DeliveryInfo(order, IF IsSome(order.confirm_time) THEN order.confirm_time.some
                        ELSE cfg.block_number)

\* The relayer that delivered a nonce, from the unrewarded-relayer entries
MessageRelayerOf(nonce) ==
    LET e == CHOOSE e \in 1..Len(rw.messages_relayers) :
                 /\ rw.messages_relayers[e].messages.begin <= nonce
                 /\ nonce <= rw.messages_relayers[e].messages.end
    IN  rw.messages_relayers[e].relayer

\* The slash reports made for a nonce against a relayer
ReportsFor(nonce, who) ==
    {i \in 1..Len(rw.reports) : rw.reports[i].message = nonce /\ rw.reports[i].who = who}

\* C8: conservation.  The payouts of the batch's reward items add up to the fees of
\* the rewarded orders plus the collateral moved by the batch's slashes, less at most
\* one rounding unit per order, and never more.
C8_Conservation ==
    rw.called =>
       LET pool == SumOrderFees(rw.items, Len(rw.items))
                   + SumMoved(rw.reports, Len(rw.reports), RewardedNonces)
           payouts == SumPayouts(rw.items, Len(rw.items))
       IN  /\ payouts <= pool
           /\ pool - payouts <= Len(rw.items)
           /\ SumMoved(rw.reports, Len(rw.reports), RewardedNonces)
                = balance[FundAccount] - rw.balance_before[FundAccount]
                  + SumPaid

\* C8 witness: a batch of two orders, one of them rewarded with slashed collateral,
\* whose payouts equal fees plus slashes.
C8_Witness ==
    /\ rw.called /\ Len(rw.items) = 2
    /\ SumMoved(rw.reports, Len(rw.reports), RewardedNonces) > 0
    /\ SumPayouts(rw.items, Len(rw.items))
         = SumOrderFees(rw.items, Len(rw.items))
           + SumMoved(rw.reports, Len(rw.reports), RewardedNonces)

\* C9, as claimed: for an order confirmed in slot k >= 1, every assigned relayer of
\* the slots before k is slashed the slash ratio of its locked collateral, and the
\* slashed amounts are in the pool that is split: the treasury gets fee + slashes -
\* base fee.
C9_PreviousSlotsSlashed ==
    rw.called =>
       \A i \in 1..Len(rw.items) :
          LET nonce == rw.items[i].nonce
              order == OrderOf(nonce)
              slot == ConfirmedSlot(order)
          IN  (IsSome(slot) /\ slot.some.relayer_index >= 1) =>
                 /\ \A j \in 1..slot.some.relayer_index :
                       \E r \in ReportsFor(nonce, order.assigned_relayers[j].id) :
                          rw.reports[r].amount
                            = PermillMul(cfg.assigned_relayer_slash_ratio,
                                         rw.reports[r].locked_before)
                 /\ rw.items[i].item.to_treasury
                      = Some(OrderFee(order)
                             + SumMoved(rw.reports, Len(rw.reports), {nonce})
                             - slot.some.base_fee)

\* C10: for an order confirmed after all slots, a slash is made against every
\* assigned relayer of the order, and fee plus the amounts moved is split between the
\* message relayer and the confirmation relayer alone: the reward item has no slot
\* relayer share and no treasury share.
C10_AfterDeadline ==
    rw.called =>
       \A i \in 1..Len(rw.items) :
          LET nonce == rw.items[i].nonce
              order == OrderOf(nonce)
              item == rw.items[i].item
              pool == OrderFee(order) + SumMoved(rw.reports, Len(rw.reports), {nonce})
          IN  ~IsSome(ConfirmedSlot(order)) =>
                 /\ \A j \in 1..Len(order.assigned_relayers) :
                       Cardinality(ReportsFor(nonce, order.assigned_relayers[j].id)) = 1
                 /\ item.to_slot_relayer = None
                 /\ item.to_treasury = None
                 /\ item.to_message_relayer
                      = Some(<<MessageRelayerOf(nonce),
                               PermillMul(cfg.message_relayers_reward_ratio, pool)>>)
                 /\ item.to_confirm_relayer
                      = Some(<<rw.confirmation_relayer,
                               PermillMul(cfg.confirm_relayers_reward_ratio, pool)>>)
                 /\ ItemPayout(item) <= pool /\ pool - ItemPayout(item) <= 1

\* C10 witness: order 1 confirmed at block 15, right after its last slot; each of
\* its three relayers lost collateral and the pool went to the two relayers.
C10_Witness ==
    /\ rw.called /\ Len(rw.items) >= 1
    /\ rw.items[1].nonce = 1
    /\ OrderOf(1).confirm_time = Some(15)
    /\ \A r \in AssignedRelayers :
          \E k \in ReportsFor(1, r) : rw.reports[k].moved > 0
    /\ ItemPayout(rw.items[1].item)
         = OrderFee(OrderOf(1)) + SumMoved(rw.reports, Len(rw.reports), {1})
    /\ rw.items[1].item.to_treasury = None

\* C11: after all deadlines, when a slash protection is configured, the amount
\* requested from an assigned relayer for an order, and so the amount moved from it,
\* is never above the protection, whatever the delay and however many relayers were
\* slashed before it.
C11_SlashProtectCeiling ==
    (rw.called /\ IsSome(cfg.collateral_slash_protect)) =>
       \A i \in 1..Len(rw.reports) :
          ~IsSome(ConfirmedSlot(OrderOf(rw.reports[i].message))) =>
             /\ rw.reports[i].amount <= cfg.collateral_slash_protect.some
             /\ rw.reports[i].moved <= cfg.collateral_slash_protect.some

\* C11 witness: order 1 confirmed at block 70, long after its last slot, under a
\* protection of 50: the delay penalty alone is above 50, and each of the three
\* relayers is asked for exactly 50.
C11_Witness ==
    /\ rw.called /\ cfg.collateral_slash_protect = Some(50)
    /\ Len(rw.items) >= 1 /\ rw.items[1].nonce = 1
    /\ OrderOf(1).confirm_time = Some(70)
    /\ CalSlashAmount(OrderOf(1).locked_collateral, DeliveryDelay(OrderOf(1)).some) > 50
    /\ \A r \in AssignedRelayers :
          \E k \in ReportsFor(1, r) : rw.reports[k].amount = 50 /\ rw.reports[k].moved = 50

\* The slash reports of the batch made for orders confirmed after their last slot
OutOfDeadlineReports ==
    {i \in 1..Len(rw.reports) : ~IsSome(ConfirmedSlot(OrderOf(rw.reports[i].message)))}

\* C39: in every call of slash_assigned_relayer made by slash_and_calculate_rewards
\* the requested amount is at most the relayer's recorded locked collateral (the
\* debug assertion holds), and no relayer loses more than that collateral in the call.
C39_SlashWithinCollateral ==
    rw.called =>
       \A i \in 1..Len(rw.reports) :
          /\ rw.reports[i].asserted
          /\ rw.reports[i].amount <= rw.reports[i].locked_before
          /\ rw.reports[i].moved <= rw.reports[i].locked_before

\* The slashes of the in-slot arm are a ratio of the recorded collateral and stay
\* within it; those of the out-of-deadline arm stay within the slash protection
\* when one is configured (C11) and are otherwise unbounded by the collateral.
InSlotSlashWithinCollateral ==
    rw.called =>
       \A i \in (1..Len(rw.reports)) \ OutOfDeadlineReports :
          /\ rw.reports[i].asserted
          /\ rw.reports[i].amount
               = PermillMul(cfg.assigned_relayer_slash_ratio, rw.reports[i].locked_before)

\* A relayer asked for, and losing, more than its recorded collateral for one order
SlashedAboveCollateral ==
    /\ rw.called
    /\ \E i \in OutOfDeadlineReports :
          /\ ~rw.reports[i].asserted
          /\ rw.reports[i].moved > rw.reports[i].locked_before
          /\ rw.reports[i].locked_after = 0

\* C40: after all deadlines, two assigned relayers of an order with equal recorded
\* collateral are asked for equal amounts, whatever their positions in the list of
\* assignees and whatever the collateral of the others.
C40_EqualCollateralEqualSlash ==
    rw.called =>
       \A i, j \in OutOfDeadlineReports :
          (/\ rw.reports[i].message = rw.reports[j].message
           /\ rw.reports[i].locked_before = rw.reports[j].locked_before)
             => rw.reports[i].amount = rw.reports[j].amount

\* Without a slash protection the amount asked from an assignee is the amount asked
\* from the assignee before it plus the ratio of its own collateral: it depends on
\* the position in the list and on the collateral of every assignee before it.
SlashGrowsAlongAssignees ==
    (rw.called /\ ~IsSome(cfg.collateral_slash_protect)) =>
       \A i, j \in OutOfDeadlineReports :
          (rw.reports[i].message = rw.reports[j].message /\ j = i + 1)
             => rw.reports[j].amount
                  = rw.reports[i].amount
                    + PermillMul(cfg.assigned_relayer_slash_ratio,
                                 rw.reports[j].locked_before)

\* Two assignees of one late order with equal collateral asked for different amounts
EqualCollateralUnequalSlash ==
    /\ rw.called
    /\ \E i, j \in OutOfDeadlineReports :
          /\ rw.reports[i].message = rw.reports[j].message
          /\ rw.reports[i].locked_before = rw.reports[j].locked_before
          /\ rw.reports[i].amount < rw.reports[j].amount

\* The orders of the confirmed range that the batch had to reward
OrdersToReward ==
    {n \in 1..MaxNonce :
        /\ <<rw.lane_id, n>> \in DOMAIN orders
        /\ rw.received_range.start <= n /\ n <= rw.received_range.end
        /\ \E e \in 1..Len(rw.messages_relayers) :
              /\ rw.messages_relayers[e].messages.begin <= n
              /\ n <= rw.messages_relayers[e].messages.end}

(***************************************************************************)
(* Properties of the reward items and of the rewards book.                 *)
(***************************************************************************)
\* The reward items of the batch that were computed for a nonce
ItemsFor(n) == {i \in 1..Len(rw.items) : rw.items[i].nonce = n}

\* The amount an item gives to a recipient under one of its pair-valued fields
PairAmount(field, a) == IF IsSome(field) /\ field.some[1] = a THEN field.some[2] ELSE 0

\* The sums of the first n reward items: what they give to a as slot relayer, to a
\* as message relayer, to the treasury, and to the confirmation relayer
RECURSIVE SlotRelayerSum(_, _)
SlotRelayerSum(a, n) ==
    IF n = 0 THEN 0
    ELSE PairAmount(rw.items[n].item.to_slot_relayer, a) + SlotRelayerSum(a, n - 1)

RECURSIVE MessageRelayerSum(_, _)
MessageRelayerSum(a, n) ==
    IF n = 0 THEN 0
    ELSE PairAmount(rw.items[n].item.to_message_relayer, a) + MessageRelayerSum(a, n - 1)

RECURSIVE TreasurySum(_)
TreasurySum(n) ==
    IF n = 0 THEN 0
    ELSE (IF IsSome(rw.items[n].item.to_treasury) THEN rw.items[n].item.to_treasury.some
          ELSE 0) + TreasurySum(n - 1)

RECURSIVE ConfirmSum(_)
ConfirmSum(n) ==
    IF n = 0 THEN 0
    ELSE (IF IsSome(rw.items[n].item.to_confirm_relayer)
          THEN rw.items[n].item.to_confirm_relayer.some[2] ELSE 0) + ConfirmSum(n - 1)

\* The recipients the items name as slot relayers, and as message relayers
SlotRelayersOfItems ==
    {rw.items[i].item.to_slot_relayer.some[1] :
        i \in {j \in 1..Len(rw.items) : IsSome(rw.items[j].item.to_slot_relayer)}}
MessageRelayersOfItems ==
    {rw.items[i].item.to_message_relayer.some[1] :
        i \in {j \in 1..Len(rw.items) : IsSome(rw.items[j].item.to_message_relayer)}}

\* C29: one call of slash_and_calculate_rewards computes exactly one reward item for
\* every nonce that lies in the received range and in a relayer entry's range and has
\* an order, and none for any other nonce, in particular none outside the received
\* range; the rewards book holds, per recipient, exactly the sum of the amounts the
\* items give it: per slot relayer, per message relayer, for the treasury and for the
\* confirmation relayer.
C29_ItemsAndBook ==
    rw.called =>
        /\ \A n \in OrdersToReward : Cardinality(ItemsFor(n)) = 1
        /\ \A i \in 1..Len(rw.items) :
              /\ rw.items[i].nonce \in OrdersToReward
              /\ rw.received_range.start <= rw.items[i].nonce
              /\ rw.items[i].nonce <= rw.received_range.end
        /\ DOMAIN rw.book.assigned_relayers_sum = SlotRelayersOfItems
        /\ \A a \in SlotRelayersOfItems :
              rw.book.assigned_relayers_sum[a] = SlotRelayerSum(a, Len(rw.items))
        /\ DOMAIN rw.book.deliver_sum = MessageRelayersOfItems
        /\ \A a \in MessageRelayersOfItems :
              rw.book.deliver_sum[a] = MessageRelayerSum(a, Len(rw.items))
        /\ rw.book.treasury_sum = TreasurySum(Len(rw.items))
        /\ rw.book.confirm_sum = ConfirmSum(Len(rw.items))

\* Two orders of one batch were rewarded, both paying the same message relayer
C29_Witness ==
    /\ rw.called
    /\ Len(rw.items) = 2
    /\ rw.items[1].nonce = 1 /\ rw.items[2].nonce = 2
    /\ IsSome(rw.items[1].item.to_message_relayer)
    /\ IsSome(rw.items[2].item.to_message_relayer)
    /\ rw.items[1].item.to_message_relayer.some[1] = 4
    /\ rw.items[2].item.to_message_relayer.some[1] = 4
    /\ rw.items[1].item.to_message_relayer.some[2] > 0
    /\ rw.items[2].item.to_message_relayer.some[2] > 0
    /\ rw.book.deliver_sum[4] = rw.items[1].item.to_message_relayer.some[2]
                                  + rw.items[2].item.to_message_relayer.some[2]

\* A batch whose relayer entry covers a nonce outside the received range: the nonce
\* is left out
C29_NonceLeftOut ==
    /\ rw.called
    /\ Len(rw.items) = 1
    /\ \E e \in 1..Len(rw.messages_relayers) :
          rw.messages_relayers[e].messages.end > rw.received_range.end

\* C12, as claimed: a slash whose transfer fails moves nothing, adds nothing to the
\* order's pool and leaves the relayer's recorded collateral as it was, and the other
\* relayers and nonces of the batch are still processed; a slash whose transfer
\* succeeds reduces the recorded collateral by exactly the amount moved.
C12_SlashTransferAccounting ==
    rw.called =>
       /\ RewardedNonces = OrdersToReward
       /\ \A i \in 1..Len(rw.reports) :
             /\ rw.reports[i].moved = 0 =>
                   rw.reports[i].locked_after = rw.reports[i].locked_before
             /\ rw.reports[i].moved > 0 =>
                   rw.reports[i].locked_before - rw.reports[i].locked_after
                     = rw.reports[i].moved

\* The order was confirmed in its first slot
ConfirmedInSlotZero(order) ==
    IsSome(ConfirmedSlot(order)) /\ ConfirmedSlot(order).some.relayer_index = 0

\* C13: for an order confirmed in slot 0 the treasury gets fee - base_fee, the slot
\* relayer gets the assigned-relayer ratio of the base fee, and what is left of the
\* base fee goes to the message and the confirmation relayer by their ratios; with
\* fee 100, base fee 40 and a ratio of 50% that is 20 for the slot relayer, 60 for
\* the treasury and the other 20 for the two relayers.
C13_SlotZeroSplit ==
    rw.called =>
       \A i \in 1..Len(rw.items) :
          LET order == OrderOf(rw.items[i].nonce)
              item == rw.items[i].item
              slot == ConfirmedSlot(order).some
              slot_share == PermillMul(cfg.assigned_relayers_reward_ratio, slot.base_fee)
          IN  ConfirmedInSlotZero(order) =>
                 /\ item.to_treasury = Some(OrderFee(order) - slot.base_fee)
                 /\ item.to_slot_relayer = Some(<<slot.slot_relayer_id, slot_share>>)
                 /\ item.to_message_relayer
                      = Some(<<MessageRelayerOf(rw.items[i].nonce),
                               PermillMul(cfg.message_relayers_reward_ratio,
                                          slot.base_fee - slot_share)>>)
                 /\ item.to_confirm_relayer
                      = Some(<<rw.confirmation_relayer,
                               PermillMul(cfg.confirm_relayers_reward_ratio,
                                          slot.base_fee - slot_share)>>)
                 /\ (OrderFee(order) = 100 /\ slot.base_fee = 40
                       /\ cfg.assigned_relayers_reward_ratio = 50) =>
                       /\ AmountOf(item.to_slot_relayer) = 20
                       /\ item.to_treasury = Some(60)
                       /\ AmountOf(item.to_message_relayer)
                            + AmountOf(item.to_confirm_relayer) = 20

\* C13 witness: order 1 (fee 100, base fee 40) confirmed at block 2, ratios 50% for
\* the slot relayer and 80% / 20% for the message and the confirmation relayer:
\* 20, 60, 16 and 4.
C13_Witness ==
    /\ rw.called /\ Len(rw.items) >= 1 /\ rw.items[1].nonce = 1
    /\ OrderOf(1).confirm_time = Some(2)
    /\ OrderFee(OrderOf(1)) = 100 /\ cfg.assigned_relayers_reward_ratio = 50
    /\ cfg.message_relayers_reward_ratio = 80
    /\ rw.items[1].item = [to_slot_relayer |-> Some(<<1, 20>>), to_treasury |-> Some(60),
                           to_message_relayer |-> Some(<<4, 16>>),
                           to_confirm_relayer |-> Some(<<rw.confirmation_relayer, 4>>)]

\* C14: for an order confirmed in slot 0 no slash is made: there is no slash report
\* for it, and a batch of such orders leaves every recorded collateral as it was and
\* no assigned relayer with less balance than before.
C14_SlotZeroNoSlash ==
    rw.called =>
       /\ \A n \in RewardedNonces :
             ConfirmedInSlotZero(OrderOf(n)) =>
                \A i \in 1..Len(rw.reports) : rw.reports[i].message # n
       /\ (\A n \in RewardedNonces : ConfirmedInSlotZero(OrderOf(n))) =>
             /\ rw.reports = <<>>
             /\ collateral = rw.collateral_before
             /\ \A r \in AssignedRelayers : balance[r] >= rw.balance_before[r]

\* C14 witness: orders 1 and 2, both confirmed at block 2, are rewarded; no report is
\* made and the collateral records are those from before the call.
C14_Witness ==
    /\ rw.called /\ Len(rw.items) = 2
    /\ \A n \in RewardedNonces :
          OrderOf(n).confirm_time = Some(2) /\ ConfirmedInSlotZero(OrderOf(n))
    /\ rw.reports = <<>>
    /\ collateral = rw.collateral_before
    /\ balance[1] > rw.balance_before[1]

(***************************************************************************)
(* Properties of the anchored verifiers                                    *)
(***************************************************************************)
\* What each strategy makes of the proof's header hash: a checker over the proved
\* storage, or its own error
DirectAnchor ==
    GrandpaParseFinalizedStorageProof(ap.imported_headers, ap.proof.bridged_header_hash,
                                      ap.proof.storage_proof)
ParachainAnchor ==
    ParachainsParseFinalizedStorageProof(ap.imported_para_heads, BridgedParachain,
                                         ap.proof.bridged_header_hash,
                                         ap.proof.storage_proof)

\* C15: when both strategies resolve a root that the storage proof is a proof under,
\* and so read the same storage, the direct and the parachain verifier return the same
\* result, for messages proofs and for delivery proofs; results differ only when one
\* of the strategies fails to resolve its root, and are then its error.
C15_AnchoringsAgree ==
    /\ (IsSome(ap.direct) /\ IsSome(ap.parachain)) =>
          /\ (IsOk(DirectAnchor) /\ IsOk(ParachainAnchor)) => ap.direct = ap.parachain
          /\ ap.direct # ap.parachain =>
                \/ IsErr(DirectAnchor) /\ ap.direct.some = DirectAnchor
                \/ IsErr(ParachainAnchor) /\ ap.parachain.some = ParachainAnchor
    /\ (IsSome(ap.delivery_direct) /\ IsSome(ap.delivery_parachain)) =>
          /\ (IsOk(DirectAnchor) /\ IsOk(ParachainAnchor)) =>
                ap.delivery_direct = ap.delivery_parachain
          /\ ap.delivery_direct # ap.delivery_parachain =>
                \/ IsErr(DirectAnchor) /\ ap.delivery_direct.some = DirectAnchor
                \/ IsErr(ParachainAnchor) /\ ap.delivery_parachain.some = ParachainAnchor

\* C15 witness: both strategies resolve the proof's root; both messages verifiers
\* return the two proved messages, both delivery verifiers the inbound lane state.
C15_Witness ==
    /\ IsOk(DirectAnchor) /\ IsOk(ParachainAnchor)
    /\ IsSome(ap.direct) /\ ap.direct = ap.parachain
    /\ IsOk(ap.direct.some) /\ Len(ap.direct.some.ok[LaneId].messages) = 2
    /\ IsSome(ap.delivery_direct) /\ ap.delivery_direct = ap.delivery_parachain
    /\ IsOk(ap.delivery_direct.some)

\* The read of the inbound lane state key in the storage the proof proves
InboundLaneStateRead ==
    StorageReadValue(ap.proof.storage_proof.storage, InboundLaneDataKey(ap.proof.lane))

\* C16: once the header is resolved, verify_messages_delivery_proof returns the
\* proof's lane with the decoded inbound lane state, and fails, with the error of the
\* failure, when the key cannot be read, is absent, or holds a value that does not
\* decode.
C16_DeliveryProof ==
    (IsSome(ap.delivery_direct) /\ IsOk(DirectAnchor)) =>
       LET result == ap.delivery_direct.some
       IN  /\ InboundLaneStateRead = ReadFailed =>
                result = Err("Failed to read inbound lane state from storage proof")
           /\ InboundLaneStateRead = ReadAbsent =>
                result = Err("Inbound lane state is missing from the messages proof")
           /\ (IsOk(InboundLaneStateRead) /\ IsSome(InboundLaneStateRead.ok)) =>
                IF IsErr(DecodeInboundLaneData(InboundLaneStateRead.ok.some))
                THEN result = Err("Failed to decode inbound lane state from the proof")
                ELSE /\ IsOk(result)
                     /\ result.ok[1] = ap.proof.lane
                     /\ EncodeInboundLaneData(result.ok[2]) = InboundLaneStateRead.ok.some

\* C16 witness: the proof proves an inbound lane state with one unrewarded relayer,
\* and the verifier returns it for the lane.
C16_Witness ==
    /\ IsSome(ap.delivery_direct) /\ IsOk(DirectAnchor)
    /\ IsOk(ap.delivery_direct.some)
    /\ ap.delivery_direct.some.ok
         = <<LaneId, [relayers |-> <<[relayer |-> 4, messages |-> [begin |-> 1, end |-> 2]]>>,
                      last_confirmed_nonce |-> 0]>>

(***************************************************************************)
(* Properties of the payment of the rewards                                *)
(***************************************************************************)
\* The non-zero rewards of the book, in the order pay_relayers_rewards pays them
DueRewards == SelectSeq(Rewards(rw.book, rw.confirmation_relayer), LAMBDA x : x.reward # 0)

\* What the slashes took from an account and what they brought to it
RECURSIVE SlashedFrom(_, _)
SlashedFrom(a, n) ==
    IF n = 0 THEN 0
    ELSE (IF rw.reports[n].who = a THEN rw.reports[n].moved ELSE 0) + SlashedFrom(a, n - 1)
RECURSIVE SlashedInto(_, _)
SlashedInto(a, n) ==
    IF n = 0 THEN 0
    ELSE (IF a = FundAccount THEN rw.reports[n].moved ELSE 0) + SlashedInto(a, n - 1)

\* The rewards that reached an account
RECURSIVE RewardedTo(_, _)
RewardedTo(a, n) ==
    IF n = 0 THEN 0
    ELSE (IF rw.paid[n].ok /\ rw.paid[n].to = a THEN rw.paid[n].reward ELSE 0)
         + RewardedTo(a, n - 1)

\* The recorded collateral of a relayer after the slashes of the batch
CollateralAfterSlashes(r) ==
    LET of == {i \in 1..Len(rw.reports) : rw.reports[i].who = r}
    IN  IF of = {} THEN rw.collateral_before[r]
        ELSE rw.reports[CHOOSE i \in of : \A j \in of : j <= i].locked_after

\* C23: a failed reward transfer does not end pay_relayers_rewards: every non-zero
\* reward of the book is tried, in order, whether or not earlier ones failed; a failed
\* transfer moves nothing, and what the batch did before it stays: the slashes, the
\* recorded collateral and the rewards already paid.
C23_FailedRewardOnlyLogged ==
    rw.called =>
       /\ Len(rw.paid) = Len(DueRewards)
       /\ \A i \in 1..Len(rw.paid) :
             /\ rw.paid[i].to = DueRewards[i].to
             /\ rw.paid[i].reward = DueRewards[i].reward
       /\ \A a \in MarketAccounts :
             balance[a] = rw.balance_before[a]
                          - SlashedFrom(a, Len(rw.reports)) + SlashedInto(a, Len(rw.reports))
                          + RewardedTo(a, Len(rw.paid))
                          - (IF a = FundAccount THEN SumPaid ELSE 0)
       /\ \A r \in AssignedRelayers : collateral[r] = CollateralAfterSlashes(r)

\* C23 witness: a reward transfer fails and a later one of the same batch succeeds,
\* after a slash that moved collateral.
C23_Witness ==
    /\ rw.called
    /\ \E i, j \in 1..Len(rw.paid) : i < j /\ ~rw.paid[i].ok /\ rw.paid[j].ok
    /\ \E k \in 1..Len(rw.reports) : rw.reports[k].moved > 0

(***************************************************************************)
(* Properties of the clique pallet                                         *)
(***************************************************************************)
\* The header of the call is unknown, not ancient, and passes the contextless checks
ReachesFutureCheck ==
    /\ cq.call.kind = "import_unsigned_header"
    /\ cq.call.header.number > cq.storage.finalized.number
    /\ cq.call.header.hash \notin DOMAIN cq.storage.headers
    /\ cq.call.header.fails = {}

\* C24: with max_future_number_difference = 10, a header that reaches the
\* future-number check is turned away as an Unknown transaction with
\* UnsignedTooFarInTheFuture exactly when its number is more than 10 above the best
\* block's (110 passes and 111 does not when the best block is 100); every other
\* rejection is an Invalid transaction.
C24_FutureNumber ==
    cq.called =>
       /\ ReachesFutureCheck =>
             (cq.result = Err([unknown |-> "UnsignedTooFarInTheFuture"]))
               = (cq.call.header.number > cq.storage.best.number + 10)
       /\ (IsErr(cq.result) /\ "unknown" \in DOMAIN cq.result.err) =>
             /\ ReachesFutureCheck
             /\ cq.result.err.unknown = "UnsignedTooFarInTheFuture"
       /\ (ReachesFutureCheck /\ cq.call.header.number <= cq.storage.best.number + 10
             /\ cq.call.header.sealed_by_validator
             /\ cq.call.header.parent_hash \notin DOMAIN cq.storage.headers) =>
             IsOk(cq.result)

\* C24 witness: the best block is 100 and header 111, with no other defect, is
\* turned away as an Unknown transaction.
C24_Witness ==
    /\ cq.called /\ ReachesFutureCheck
    /\ cq.storage.best.number = 100
    /\ cq.call.header.number = 111
    /\ cq.call.header.sealed_by_validator
    /\ cq.result = Err([unknown |-> "UnsignedTooFarInTheFuture"])

\* The headers a call removed from Headers
PrunedHeaders == DOMAIN cq.before.headers \ DOMAIN cq.storage.headers

\* C25: one call of prune_blocks removes at most max_blocks_to_prune headers, none
\* when the budget is 0, whatever the range and the number of headers per block
\* number; finalize_and_prune_headers so removes at most 8 headers per call.  No
\* header is added, and the hashes forgotten from HeadersByNumber are as few.
C25_PruneCap ==
    cq.called =>
       /\ DOMAIN cq.storage.headers \subseteq DOMAIN cq.before.headers
       /\ Cardinality(PrunedHeaders) <= cq.max_blocks_to_prune
       /\ cq.max_blocks_to_prune = 0 =>
             /\ cq.storage.headers = cq.before.headers
             /\ cq.storage.headers_by_number = cq.before.headers_by_number
       /\ cq.op = "finalize_and_prune_headers" =>
             /\ cq.max_blocks_to_prune = 8
             /\ Cardinality(PrunedHeaders) <= 8

\* C25 witness: finalize_and_prune_headers meets more than 8 headers in its range
\* and removes exactly 8 of them.
C25_Witness ==
    /\ cq.called /\ cq.op = "finalize_and_prune_headers"
    /\ Cardinality(DOMAIN cq.before.headers) > 8
    /\ Cardinality(PrunedHeaders) = 8
    /\ DOMAIN cq.storage.headers # {}

\* C32: the pruning range only moves forward.  Over every call of prune_blocks
\* oldest_block_to_keep becomes the larger of its old value and prune_end (a smaller
\* prune_end is ignored) and oldest_unpruned_block does not decrease; after every call,
\* as before the first, oldest_unpruned_block <= oldest_block_to_keep; and a call whose
\* range is empty removes no header, forgets no hash and leaves oldest_unpruned_block.
C32_RangeMovesForward ==
    /\ cq.storage.blocks_to_prune.oldest_unpruned_block
          <= cq.storage.blocks_to_prune.oldest_block_to_keep
    /\ cq.called =>
          /\ cq.storage.blocks_to_prune.oldest_block_to_keep
                = Max(cq.before.blocks_to_prune.oldest_block_to_keep, cq.prune_end)
          /\ cq.storage.blocks_to_prune.oldest_unpruned_block
                >= cq.before.blocks_to_prune.oldest_unpruned_block
          /\ cq.before.blocks_to_prune.oldest_unpruned_block
                >= Max(cq.before.blocks_to_prune.oldest_block_to_keep, cq.prune_end) =>
                /\ cq.storage.headers = cq.before.headers
                /\ cq.storage.headers_by_number = cq.before.headers_by_number
                /\ cq.storage.blocks_to_prune.oldest_unpruned_block
                      = cq.before.blocks_to_prune.oldest_unpruned_block

\* C32 witness: the range [0, 5) is asked to end at 3; it still ends at 5 and its
\* begin has moved forward over pruned headers
C32_Witness ==
    /\ cq.called /\ cq.op = "prune_blocks"
    /\ cq.before.blocks_to_prune = [oldest_unpruned_block |-> 0, oldest_block_to_keep |-> 5]
    /\ cq.prune_end = 3
    /\ cq.storage.blocks_to_prune.oldest_block_to_keep = 5
    /\ cq.storage.blocks_to_prune.oldest_unpruned_block > 0
    /\ PrunedHeaders # {}

\* A header that carries a scheduled change of the validators: a checkpoint, whose
\* number is a multiple of the epoch length
CarriesValidatorsChange(header) == header.number % cq.config.epoch_length = 0

\* The numbers above the finalized number of a call under which the hash of a stored
\* header that carries a change of the validators is listed
GuardedNumbers ==
    {n \in DOMAIN cq.before.headers_by_number :
        /\ n > cq.storage.finalized.number
        /\ \E k \in 1..Len(cq.before.headers_by_number[n]) :
              /\ cq.before.headers_by_number[n][k] \in DOMAIN cq.before.headers
              /\ CarriesValidatorsChange(cq.before.headers[cq.before.headers_by_number[n][k]])}

\* The hashes a storage lists under a number
HashesAt(storage, n) ==
    IF n \in DOMAIN storage.headers_by_number
    THEN {storage.headers_by_number[n][k] : k \in 1..Len(storage.headers_by_number[n])}
    ELSE {}

\* C33: prune_blocks removes no unfinalized header at a number where some header
\* signals a change of the validators: all the hashes and headers of that number are
\* kept, and when the range reaches the number the pruning stops there, so that
\* oldest_unpruned_block is at most that number and no header listed under a higher
\* number is removed in that call.
C33_GuardedNumberKept ==
    cq.called =>
       \A n \in GuardedNumbers :
          /\ n \in DOMAIN cq.storage.headers_by_number
          /\ cq.storage.headers_by_number[n] = cq.before.headers_by_number[n]
          /\ PrunedHeaders \cap HashesAt(cq.before, n) = {}
          /\ n >= cq.before.blocks_to_prune.oldest_unpruned_block =>
                /\ cq.storage.blocks_to_prune.oldest_unpruned_block <= n
                /\ \A m \in DOMAIN cq.before.headers_by_number :
                      m > n => /\ m \in DOMAIN cq.storage.headers_by_number
                               /\ cq.storage.headers_by_number[m]
                                     = cq.before.headers_by_number[m]
                               /\ PrunedHeaders \cap HashesAt(cq.before, m) = {}

\* C33 witness: block 1 gets finalized and the range [0, 5) is pruned with a budget
\* that would reach the headers of number 2; the headers below 2 are removed, and
\* the pruning stops at 2, where the unfinalized headers signal a change
C33_Witness ==
    /\ cq.called /\ cq.op = "finalize_and_prune_headers"
    /\ cq.storage.finalized.number = 1
    /\ cq.before.blocks_to_prune.oldest_unpruned_block = 0
    /\ 2 \in GuardedNumbers
    /\ Cardinality(PrunedHeaders) < cq.max_blocks_to_prune
    /\ HashesAt(cq.before, 1) # {} /\ HashesAt(cq.storage, 1) = {}
    /\ cq.storage.blocks_to_prune.oldest_unpruned_block = 2
    /\ cq.storage.blocks_to_prune.oldest_block_to_keep = 5
    /\ Len(cq.storage.headers_by_number[2]) > 0

(***************************************************************************)
(* Properties of the payment of the delivery and dispatch fee              *)
(***************************************************************************)
\* C37: pay_delivery_and_dispatch_fee fails without moving funds when the submitter
\* has no linked account and the fee is not zero, succeeds without moving funds when
\* the submitter has no linked account and the fee is zero, and otherwise transfers
\* exactly the fee from the submitter's account to the relayer fund account: on
\* success the submitter has the fee less and the fund the fee more, nobody else is
\* touched; when the transfer fails its error is returned and no balance changes.
C37_FeePayment ==
    rw.called =>
       LET account == linked_account(rw.submitter)
       IN  /\ (~IsSome(account) /\ rw.fee # 0) =>
                 /\ rw.result = Err(NON_ZERO_MESSAGE_FEE_CANT_BE_PAID_BY_NONE)
                 /\ balance = rw.balance_before
           /\ (~IsSome(account) /\ rw.fee = 0) =>
                 /\ IsOk(rw.result)
                 /\ balance = rw.balance_before
           /\ (IsSome(account) /\ IsOk(rw.result)) =>
                 /\ balance[account.some] = rw.balance_before[account.some] - rw.fee
                 /\ balance[FundAccount] = rw.balance_before[FundAccount] + rw.fee
                 /\ \A a \in DOMAIN balance \ {account.some, FundAccount} :
                       balance[a] = rw.balance_before[a]
           /\ (IsSome(account) /\ IsErr(rw.result)) =>
                 /\ rw.result \in {Err("InsufficientBalance"), Err("ExistentialDeposit")}
                 /\ rw.result = CurrencyTransfer(rw.balance_before, account.some,
                                                 FundAccount, rw.fee, FALSE)
                 /\ balance = rw.balance_before

\* C37 witness: account 4 pays its whole balance of 10 as the fee and is emptied
C37_Witness ==
    /\ rw.called /\ rw.submitter = RawSigned(4) /\ rw.fee = 10
    /\ IsOk(rw.result)
    /\ rw.balance_before[4] = 10 /\ balance[4] = 0
    /\ balance[FundAccount] = rw.balance_before[FundAccount] + 10

\* Root has no account: its fee of 5 is refused
RootFeeRefused ==
    /\ rw.called /\ rw.submitter = RawRoot /\ rw.fee = 5
    /\ rw.result = Err(NON_ZERO_MESSAGE_FEE_CANT_BE_PAID_BY_NONE)

(***************************************************************************)
(* Properties of the import of headers                                     *)
(***************************************************************************)
\* What is_importable_header answered in the last import: AncientHeader for a number
\* at or below the finalized one, else KnownHeader for a stored hash
PreCheckAsSpecified ==
    /\ cq.result = Err("AncientHeader")
          <=> cq.header.number <= cq.before.finalized.number
    /\ cq.result = Err("KnownHeader")
          <=> (cq.header.number > cq.before.finalized.number
                 /\ cq.header.hash \in DOMAIN cq.before.headers)

\* A stored header that competes with the finalized block: same number, other hash
CompetesWithFinalized(storage, hash) ==
    /\ storage.headers[hash].number = storage.finalized.number
    /\ hash # storage.finalized.hash

ImportedAgain ==
    /\ cq.called /\ cq.op = "import_header" /\ IsOk(cq.result)
    /\ \E i \in 1..(Len(cq.imported) - 1) : cq.imported[i] = cq.header.hash

\* The hashes HeadersByNumber lists, under any number
ListedHashes(storage) ==
    UNION { {storage.headers_by_number[n][k] : k \in 1..Len(storage.headers_by_number[n])} :
            n \in DOMAIN storage.headers_by_number }

\* The numbers the last call pruned through: those its pruning range moved over
NumbersPrunedThrough ==
    {n \in 0..5 : /\ cq.before.blocks_to_prune.oldest_unpruned_block <= n
                  /\ n < cq.storage.blocks_to_prune.oldest_unpruned_block}

\* C38: after any sequence of insert_header and prune_blocks calls Headers and
\* HeadersByNumber are consistent: every hash listed under a number has a stored
\* header of that number, and every stored header is listed under its number; a
\* number the pruning has gone through lists no hash any more and none of its
\* headers is stored; and a number that was pruned in part lists exactly the hashes
\* that were not removed, which are those whose headers are still stored.
C38_HeadersConsistent ==
    /\ \A n \in DOMAIN cq.storage.headers_by_number :
          \A k \in 1..Len(cq.storage.headers_by_number[n]) :
             /\ cq.storage.headers_by_number[n][k] \in DOMAIN cq.storage.headers
             /\ cq.storage.headers[cq.storage.headers_by_number[n][k]].number = n
    /\ \A hash \in DOMAIN cq.storage.headers :
          /\ cq.storage.headers[hash].number \in DOMAIN cq.storage.headers_by_number
          /\ hash \in HashesAt(cq.storage, cq.storage.headers[hash].number)
    /\ cq.called =>
          /\ \A n \in NumbersPrunedThrough :
                /\ n \notin DOMAIN cq.storage.headers_by_number
                /\ \A hash \in DOMAIN cq.storage.headers :
                      cq.storage.headers[hash].number # n
          /\ \A n \in DOMAIN cq.storage.headers_by_number :
                HashesAt(cq.storage, n) = {hash \in DOMAIN cq.storage.headers :
                                             cq.storage.headers[hash].number = n}

\* C38 witness: after two imports prune_blocks has more headers in its range than its
\* budget lets it remove, so that a number is left pruned in part
C38_Witness ==
    /\ cq.called /\ cq.op = "prune_blocks"
    /\ Len(cq.imported) >= 2
    /\ Cardinality(DOMAIN cq.before.headers \ DOMAIN cq.storage.headers) > 0
    /\ \E n \in DOMAIN cq.storage.headers_by_number \cap DOMAIN cq.before.headers_by_number :
          /\ Len(cq.storage.headers_by_number[n]) > 0
          /\ Len(cq.storage.headers_by_number[n]) < Len(cq.before.headers_by_number[n])

(***************************************************************************)
(* Properties of verify_transaction_finalized                              *)
(***************************************************************************)
\* The canonical chain of a storage: the finalized block and the stored headers that
\* a stored header of the chain names as its parent
RECURSIVE CanonicalChain(_, _)
CanonicalChain(storage, hash) ==
    IF hash \notin DOMAIN storage.headers THEN {}
    ELSE {hash} \cup (IF storage.headers[hash].number = 0 THEN {}
                      ELSE CanonicalChain(storage, storage.headers[hash].parent_hash))

\* C34: verify_transaction_finalized returns true only if the block is known, its
\* number is not above the best finalized number, it is the best finalized block or
\* one of its ancestors on the canonical chain, tx_index is inside the proof, and the
\* transactions of the proof have the header's transactions root.
C34_TransactionFinalized ==
    (cq.called /\ cq.result) =>
       /\ cq.block \in DOMAIN cq.storage.headers
       /\ cq.storage.headers[cq.block].number <= cq.storage.finalized.number
       /\ cq.block \in CanonicalChain(cq.storage, cq.storage.finalized.hash)
       /\ cq.tx_index < Len(cq.proof)
       /\ TransactionsRoot(cq.proof) = cq.storage.headers[cq.block].transactions_root

\* C34 witness: a3 is finalized and the second transaction of its ancestor a1 is
\* proved with the transactions of a1
C34_Witness ==
    /\ cq.called /\ cq.result
    /\ cq.storage.finalized.hash = "a3"
    /\ cq.block = "a1" /\ cq.tx_index = 1 /\ cq.proof = TxList

\* The sibling b2 of the finalized block's parent a2 is refused, whatever is proved
SiblingRefused ==
    (cq.called /\ cq.storage.finalized.hash = "a3" /\ cq.block \in {"b2", "b3"}) => ~cq.result

(***************************************************************************)
(* Properties of the outbound lane                                         *)
(***************************************************************************)
PendingMessages == ln.data.latest_generated_nonce - ln.data.latest_received_nonce

\* C26, as claimed: after any sequence of accepted sends and delivery confirmations the
\* number of pending messages of the lane is at most
\* maximal_pending_messages_at_outbound_lane.
C26_PendingBounded ==
    PendingMessages <= maximal_pending_messages_at_outbound_lane

\* What the code keeps: a message is accepted while the pending messages are at most
\* the limit, so the lane holds at most one message more than the limit.
PendingBoundedByLimitPlusOne ==
    /\ PendingMessages <= maximal_pending_messages_at_outbound_lane + 1
    /\ (ln.called /\ ln.op = "send_message" /\ ln.lane = "lane"
          /\ ln.data_before.latest_generated_nonce - ln.data_before.latest_received_nonce
               > maximal_pending_messages_at_outbound_lane) =>
          ln.verdict = Err(TOO_MANY_PENDING_MESSAGES)

\* C27, as claimed: a message that reaches the origin check and whose submitter may
\* not use the declared call origin is rejected with BAD_ORIGIN.
C27_BadOriginRejected ==
    (ln.called /\ ln.op = "send_message"
        /\ is_message_accepted(ln.submitter, ln.lane)
        /\ ln.data_before.latest_generated_nonce - ln.data_before.latest_received_nonce
             <= maximal_pending_messages_at_outbound_lane
        /\ IsOk(ln.submitter)
        /\ IsErr(verify_message_origin(ln.submitter.ok, ln.payload))) =>
       ln.verdict = Err(BAD_ORIGIN)

\* What the code does: no verdict of verify_message is BAD_ORIGIN.
NeverBadOrigin ==
    (ln.called /\ ln.op = "send_message") => ln.verdict # Err(BAD_ORIGIN)

(***************************************************************************)
(* Properties of the inbound lane                                          *)
(***************************************************************************)
\* The nonces the last delivery brought to the lane for the first time, and the
\* message proved for a nonce
NewlyDelivered ==
    {n \in Nonces : /\ ln.start <= ln.delivered_before + 1
                    /\ ln.delivered_before < n /\ n <= ln.end}
ProvedMessage(n) == ProvedMessages(ln.rejected)[n]

\* C22: the failures of dispatch are isolated per message.  In a delivery of a range
\* of nonces every message the lane takes is handed to dispatch and reported by one
\* event under its own id, whatever happened to the messages before it: the lane goes
\* on to the end of the range, a message the lane rejected is reported as
\* MessageRejected, a message of another spec version as MessageVersionSpecMismatch,
\* and a message without defect is executed and reported as MessageDispatched even
\* when messages before it in the range failed.
C22_FailuresIsolated ==
    ln.called =>
       /\ NewlyDelivered # {} => ln.last_delivered_nonce = ln.end
       /\ \A n \in NewlyDelivered :
             /\ \E k \in 1..Len(ln.results) :
                   ln.results[k] = [nonce |-> n, result |-> "Dispatched"]
             /\ n <= Len(events)
             /\ events[n].id = [lane |-> LaneId, nonce |-> n]
             /\ IsErr(ProvedMessage(n)) => events[n].kind = "MessageRejected"
             /\ (IsOk(ProvedMessage(n)) /\ VersionDefect(ProvedMessage(n).ok)) =>
                   events[n].kind = "MessageVersionSpecMismatch"
             /\ (IsOk(ProvedMessage(n))
                   /\ \A i \in 1..5 : ~HasDefect(ProvedMessage(n).ok, i)) =>
                   /\ events[n].kind = "MessageDispatched"
                   /\ \E e \in 1..Len(executed) :
                         executed[e].id = [lane |-> LaneId, nonce |-> n]

\* C22 witness: the nonces 1..3 are delivered in one range; the message of nonce 2
\* is of another spec version and is not dispatched, the message of nonce 3 after it
\* is executed.
C22_Witness ==
    /\ ln.called /\ ln.deliveries = 1 /\ ~ln.rejected
    /\ ln.start = 1 /\ ln.end = 3 /\ ln.delivered_before = 0
    /\ Len(events) = 3
    /\ events[1].kind = "MessageDispatched"
    /\ events[2].kind = "MessageVersionSpecMismatch"
    /\ events[3].kind = "MessageDispatched"
    /\ Len(executed) = 2
    /\ executed[2].id = [lane |-> LaneId, nonce |-> 3]

\* C28: across any sequence of deliveries on a lane, each message id is dispatched,
\* and so executed, at most once and in the order of the nonces: the i-th event is
\* that of nonce i, the lane has dispatched as many messages as it has delivered, and
\* a delivery of a range that is already delivered dispatches nothing.
C28_DispatchedAtMostOnce ==
    /\ \A i, j \in 1..Len(executed) : i < j => executed[i].id.nonce < executed[j].id.nonce
    /\ \A i \in 1..Len(events) : events[i].id = [lane |-> LaneId, nonce |-> i]
    /\ ln.called =>
          /\ Len(events) = ln.last_delivered_nonce
          /\ dispatched = ln.last_delivered_nonce
          /\ ln.end <= ln.delivered_before =>
                /\ ln.last_delivered_nonce = ln.delivered_before
                /\ \A k \in 1..Len(ln.results) : ln.results[k].result = "InvalidNonce"

\* C28 witness: the nonces 1..3 are delivered, two of them executed, and the same
\* range is submitted again: nothing more is dispatched.
C28_Witness ==
    /\ ln.called /\ ln.deliveries >= 2
    /\ ln.start = 1 /\ ln.end = 3 /\ ln.delivered_before = 3
    /\ Len(events) = 3 /\ Len(executed) = 2
    /\ \A k \in 1..Len(ln.results) : ln.results[k].result = "InvalidNonce"

====
